---- MODULE Spec2Model ----
(***************************************************************************)
(* Model of the XianzhiCrawler crawl orchestrator (class XianzhiCrawler).  *)
(*                                                                         *)
(* The crawler is a single Node.js process.  Its concurrency is            *)
(* cooperative: a continuation runs from one `await` to the next without   *)
(* interruption, I/O completions, timers and signal handlers are           *)
(* macrotasks that are dispatched only when no continuation is pending,    *)
(* and an `await` of an already settled promise resumes in a microtask.    *)
(* Every `await` of the orchestrator is a value of runPc or of a worker's  *)
(* pc; the actions below are the continuations.                            *)
(***************************************************************************)
EXTENDS Integers, Sequences, FiniteSets, TLC

(***************************************************************************)
(* Bounds of the model.                                                    *)
(***************************************************************************)
MaxPagesBound == 2      \* largest maxPages option explored
MaxConcurrency == 2     \* largest concurrency option explored
MaxEntries == 2         \* most entries the listing yields on one page
MaxRetryBound == 3      \* largest retry count explored for the retry loop
MaxFailBound == 4       \* largest number of leading failures of the capability
MaxPagesDeep == 4       \* deepest page explored for the pagination decision
MaxWindowEntries == 3   \* most entries of a page handed to the filter on its own
MaxTokens == 3          \* most tokens of the Markdown file that is localized
ImageRuns == 2          \* how often the localizer is run over the directory
MaxRows == 3            \* most row elements of a table
MaxCells == 2           \* most cell elements of a row itself
MaxInnerCells == 1      \* most cell elements of tables nested in a row
MaxItems == 2           \* most items of one list
MaxCodeLen == 4         \* most characters of an inline code text
MaxCodeLines == 2       \* most code lines of a code card
MaxContentLen == 2      \* most tokens of the converted content of a card

(***************************************************************************)
(* Program constants.                                                      *)
(***************************************************************************)
DefaultRetries == 1     \* fetchArticleContentWithRetry(item.link, 1)
BaseDelay == 800        \* baseDelay = 800 (milliseconds)
SummaryEvery == 3       \* _summaryUpdateCounter % 3
DefaultMaxPages == 1    \* pick(['maxPages', 'max-pages'], 1)
MinPagesForCutoff == 3  \* currentPage > 3
NameLimit == 80         \* substring(0, 80)

NoDate == 0             \* null date / empty publishTime
BadTime == -1           \* a publishTime the pattern accepts but Date cannot parse
HoursPerDay == 24       \* instants and wall-clock readings are counted in hours

(***************************************************************************)
(* Inputs: what the listing collaborator and the detail pages can yield.   *)
(* A title is a sequence of character classes: "x" a character that is     *)
(* kept in a file name, "?" one of <>:"/\|?* , " " whitespace or a bracket.*)
(***************************************************************************)
ListTitle == <<"x", " ", "x">>
UnknownTitle == <<"unknown">>       \* '未知标题'
FailedTitle == <<"failed">>         \* '访问失败'
DetailTitles == {UnknownTitle, <<"x", "?">>}
\* date options are calendar days (YYYY-MM-DD), NoDate when not supplied
StartOptions == {NoDate, 2}
EndOptions == {NoDate}
TargetOptions == {NoDate, 1}
\* the host's offset from UTC, in hours
CrawlOffsets == {0}

VARIABLES
    startDate, endDate, targetDate, maxPages, concurrency, utcOffset,
    aborted, articles, failures, summaryUpdateCounter, seenKeys,
    runPc, crashed, hasMorePages, currentPage,
    articlesOnPage, filteredArticles, idx, workers,
    files, realtimeSummary, finalSummary, failuresFile,
    saved,
    rRetries, rFailFirst, rAttempt, rCalls, rPc, rBaseDelay, rDelays,
    iDoc, iCache, iWhole, iRaw, iTasks, iDataTasks, iIdx, iWorkers, iStarted, iRun, iPc,
    node, markdown, convPc,
    args, env, fileCfg, optMaxPages, mainPc

crawlVars == <<startDate, endDate, targetDate, maxPages, concurrency, utcOffset,
    aborted, articles, failures, summaryUpdateCounter, seenKeys,
    runPc, crashed, hasMorePages, currentPage,
    articlesOnPage, filteredArticles, idx, workers,
    files, realtimeSummary, finalSummary, failuresFile,
    saved>>

retryVars == <<rRetries, rFailFirst, rAttempt, rCalls, rPc, rBaseDelay, rDelays>>
imageVars == <<iDoc, iCache, iWhole, iRaw, iTasks, iDataTasks, iIdx, iWorkers, iStarted,
               iRun, iPc>>
convVars == <<node, markdown, convPc>>
mainVars == <<args, env, fileCfg, optMaxPages, mainPc>>
vars == <<crawlVars, retryVars, imageVars, convVars, mainVars>>

configVars == <<startDate, endDate, targetDate, maxPages, concurrency, utcOffset>>

(***************************************************************************)
(* Pure helpers.                                                           *)
(***************************************************************************)
Max(a, b) == IF a >= b THEN a ELSE b

\* new Date('YYYY-MM-DD'): a date-only string is read as midnight UTC
OptionDate(day) == day * HoursPerDay

\* constructor: options.startDate ? new Date(options.startDate) : null
ConstructorDate(opt) == IF opt # NoDate THEN OptionDate(opt) ELSE NoDate

\* constructor: targetDate falls back to startDate
ConstructorTargetDate(optTarget, start) ==
    IF optTarget # NoDate THEN OptionDate(optTarget) ELSE start

\* new Date('YYYY-M-D h:mm'): a date-time string without zone is read as
\* local time; a string that names no date gives an Invalid Date, which
\* compares false with everything
IsValidTime(publishTime) == publishTime # BadTime
DateOf(publishTime, offset) == publishTime - offset

\* identity key of a listing entry (link if non-empty, else title|publishTime)
IdentityKey(item) ==
    IF item.link # "" THEN <<"link", item.link>>
    ELSE <<"title|time", item.title, item.publishTime>>

\* mutant: the end bound is exclusive
InWindow_ExclusiveEnd(item, sd, ed, td) ==
    LET valid == IsValidTime(item.publishTime)
        articleDate == DateOf(item.publishTime, utcOffset)
    IN  /\ item.publishTime # NoDate
        /\ (sd # NoDate => (valid /\ articleDate >= sd))
        /\ (ed # NoDate => (valid /\ articleDate < ed))
        /\ ((sd = NoDate /\ ed = NoDate /\ td # NoDate) =>
                (valid /\ articleDate > td))

\* the filter callback of scrapeArticles (new Date never throws: the catch
\* branch is dead)
InWindow(item, sd, ed, td) ==
    LET valid == IsValidTime(item.publishTime)
        articleDate == DateOf(item.publishTime, utcOffset)
    IN  /\ item.publishTime # NoDate
        /\ (sd # NoDate => (valid /\ articleDate >= sd))
        /\ (ed # NoDate => (valid /\ articleDate <= ed))
        /\ ((sd = NoDate /\ ed = NoDate /\ td # NoDate) =>
                (valid /\ articleDate > td))

RECURSIVE FilterSeq(_, _, _, _)
FilterSeq(s, sd, ed, td) ==
    IF s = <<>> THEN <<>>
    ELSE IF InWindow(Head(s), sd, ed, td)
         THEN <<Head(s)>> \o FilterSeq(Tail(s), sd, ed, td)
         ELSE FilterSeq(Tail(s), sd, ed, td)

\* mutant: an entry dated exactly at the threshold does not count as older
HasOlderArticles_Strict(page, sd, td) ==
    LET thresholdDate == IF sd # NoDate THEN sd ELSE td
    IN  /\ thresholdDate # NoDate
        /\ \E k \in 1..Len(page) :
              /\ page[k].publishTime # NoDate
              /\ IsValidTime(page[k].publishTime)
              /\ DateOf(page[k].publishTime, utcOffset) < thresholdDate

\* hasOlderArticles of scrapeArticles
HasOlderArticles(page, sd, td) ==
    LET thresholdDate == IF sd # NoDate THEN sd ELSE td
    IN  /\ thresholdDate # NoDate
        /\ \E k \in 1..Len(page) :
              /\ page[k].publishTime # NoDate
              /\ IsValidTime(page[k].publishTime)
              /\ DateOf(page[k].publishTime, utcOffset) <= thresholdDate

\* generateFileName: the sanitising pipeline over character classes
RECURSIVE RemoveUnsafe(_)
RemoveUnsafe(t) ==
    IF t = <<>> THEN <<>>
    ELSE IF Head(t) = "?" THEN RemoveUnsafe(Tail(t))
         ELSE <<Head(t)>> \o RemoveUnsafe(Tail(t))

RECURSIVE FoldSpaces(_)
FoldSpaces(t) ==
    IF t = <<>> THEN <<>>
    ELSE <<IF Head(t) = " " THEN "_" ELSE Head(t)>> \o FoldSpaces(Tail(t))

RECURSIVE CollapseUnderscores(_)
CollapseUnderscores(t) ==
    IF Len(t) < 2 THEN t
    ELSE IF t[1] = "_" /\ t[2] = "_" THEN CollapseUnderscores(Tail(t))
         ELSE <<Head(t)>> \o CollapseUnderscores(Tail(t))

TrimUnderscores(t) ==
    LET a == IF t # <<>> /\ Head(t) = "_" THEN Tail(t) ELSE t
    IN  IF a # <<>> /\ a[Len(a)] = "_" THEN SubSeq(a, 1, Len(a) - 1) ELSE a

Truncate(t) == IF Len(t) > NameLimit THEN SubSeq(t, 1, NameLimit) ELSE t

generateFileName(article) ==
    LET fileName == Truncate(TrimUnderscores(CollapseUnderscores(
                        FoldSpaces(RemoveUnsafe(article.title)))))
    IN  IF fileName = <<>> THEN <<"article_", article.link, ".md">>
        ELSE fileName \o <<".md">>

\* Array.prototype.sort with (a, b) => date(b) - date(a): stable, newest first
RECURSIVE InsertByTime(_, _)
InsertByTime(s, a) ==
    IF s = <<>> THEN <<a>>
    ELSE IF Head(s).publishTime >= a.publishTime
         THEN <<Head(s)>> \o InsertByTime(Tail(s), a)
         ELSE <<a>> \o s

RECURSIVE SortByTimeDesc(_)
SortByTimeDesc(s) ==
    IF s = <<>> THEN <<>>
    ELSE InsertByTime(SortByTimeDesc(SubSeq(s, 1, Len(s) - 1)), s[Len(s)])

\* the table rows of generateIndexMarkdown, one per article of the list
IndexRows(list) ==
    [k \in 1..Len(list) |->
        [id |-> list[k].id, key |-> list[k].key, title |-> list[k].title,
         publishTime |-> list[k].publishTime,
         file |-> generateFileName(list[k])]]

NoFile == [written |-> FALSE, rows |-> <<>>]

NoName == <<>>          \* savedFileName === null
NoItem == [id |-> <<0, 0>>, link |-> "", title |-> <<>>, publishTime |-> NoDate]
NoKey == <<>>
IdleWorker == [pc |-> "done", item |-> NoItem, key |-> NoKey, attempt |-> 0,
               savedFileName |-> NoName]

\* publishTime is the wall-clock reading of the listing: day * 24 + hour
EntryPool ==
    { [link |-> "u1", title |-> ListTitle, publishTime |-> 2 * HoursPerDay],
      [link |-> "",   title |-> ListTitle, publishTime |-> 2 * HoursPerDay],
      [link |-> "",   title |-> ListTitle, publishTime |-> 1 * HoursPerDay] }

\* the raw entries of one page, tagged with the page and position they came from
PageOf(n, f, page) ==
    [k \in 1..n |-> [id |-> <<page, k>>, link |-> f[k].link, title |-> f[k].title,
                     publishTime |-> f[k].publishTime]]

\* mutant: the pool ignores the configured concurrency
poolSize_Unconfigured == MaxConcurrency

\* const poolSize = Math.max(1, this.concurrency)
poolSize == Max(1, concurrency)
Pool == 1..poolSize

(***************************************************************************)
(* Scheduling.  A continuation that was resumed by an already settled      *)
(* promise is pending in the microtask queue; the event loop dispatches    *)
(* nothing else (no I/O completion, no timer, no signal) until the queue   *)
(* is empty.                                                               *)
(***************************************************************************)
MicrotaskPcs == {"loop", "saved", "summarized"}

InMicrotask ==
    \/ runPc = "finalize"
    \/ runPc = "pool" /\ \E w \in Pool : workers[w].pc \in MicrotaskPcs
    \/ runPc = "pool" /\ \A w \in Pool : workers[w].pc = "done"

Quiescent == ~InMicrotask

(***************************************************************************)
(* The decisions of the code, one operator per condition.                  *)
(***************************************************************************)
\* mutant: the page limit is checked one page late
LoopContinues_OneMore(hm, cp, mp, ab) == hm /\ cp <= mp + 1 /\ ~ab

\* mutant: the loop goes on whatever the page number
LoopContinues_NoLimit(hm, cp, mp, ab) == hm /\ ~ab

\* scrapeArticles: while (hasMorePages && currentPage <= maxPages) { if (aborted) break;
LoopContinues(hm, cp, mp, ab) == hm /\ cp <= mp /\ ~ab

\* mutant: the cursor is read and not advanced
NextIndex_Stale(i) == i

\* runOne: const i = idx++
NextIndex(i) == i + 1

\* runOne: while (idx < filteredArticles.length && !this.aborted)
WorkerContinues(i, n, ab) == i < n /\ ~ab

\* mutant: the first dedup check is missing
AlreadySeen_Never(seen, key) == FALSE

\* runOne: if (this._seenKeys.has(key)) continue;
AlreadySeen(seen, key) == key \in seen

\* mutant: the retry loop does not look at the abort flag
RetryContinues_IgnoresAbort(attempt, retries, ab) == attempt <= retries

\* fetchArticleContentWithRetry: while (attempt <= retries && !this.aborted)
RetryContinues(attempt, retries, ab) == attempt <= retries /\ ~ab

\* Math.pow(2, attempt)
RECURSIVE Pow2(_)
Pow2(n) == IF n = 0 THEN 1 ELSE 2 * Pow2(n - 1)

\* mutant: the delay grows linearly
BackoffDelay_Linear(base, attempt) == base * (attempt + 1)

\* fetchArticleContentWithRetry: const delay = baseDelay * Math.pow(2, attempt)
BackoffDelay(base, attempt) == base * Pow2(attempt)

\* mutant: the retry loop gives up one attempt early
RetriesExhausted_OneEarly(attempt, retries) == attempt + 1 >= retries

\* fetchArticleContentWithRetry: if (attempt === retries) break;
RetriesExhausted(attempt, retries) == attempt = retries

\* fs.existsSync(filePath), an article file being its name and the entry
\* whose Markdown it holds
FileExists(fs, name) == \E f \in fs : f.name = name

\* mutant: the file is written whether it exists or not
WriteFile_Overwrites(fs, name, content) ==
    {f \in fs : f.name # name} \cup {[name |-> name, content |-> content]}

\* saveArticleImmediately: the write is skipped when the file exists
WriteFile(fs, name, content) ==
    IF FileExists(fs, name) THEN fs
    ELSE fs \cup {[name |-> name, content |-> content]}

\* runOne: const savedFileName = this.aborted ? null : await saveArticleImmediately(..)
MaySave(ab) == ~ab

\* runOne: if (savedFileName && !this.aborted)
MayCount(name, ab) == name # NoName /\ ~ab

\* mutant: the record is pushed without the second dedup check
Admit_NoRecheck(list, seen, item, key) ==
    Append(list, [id |-> item.id, link |-> item.link, title |-> item.title,
                  publishTime |-> item.publishTime, key |-> key])

\* runOne: if (!this._seenKeys.has(key)) { add; push }
\* (the record keeps the key it was admitted under beside the item's fields)
Admit(list, seen, item, key) ==
    IF key \in seen THEN list
    ELSE Append(list, [id |-> item.id, link |-> item.link, title |-> item.title,
                       publishTime |-> item.publishTime, key |-> key])

\* mutant: the catch records nothing
RecordFailure_Never(list, item, ab) == list

\* mutant: the catch records the failure whatever the abort flag
RecordFailure_Always(list, item, ab) ==
    Append(list, [id |-> item.id, link |-> item.link,
                  title |-> IF item.title = <<>> THEN UnknownTitle ELSE item.title,
                  error |-> FailedTitle])

\* runOne catch: if (this.aborted) { break; } ... this.failures.push({...})
RecordFailure(list, item, ab) ==
    IF ab THEN list
    ELSE Append(list, [id |-> item.id, link |-> item.link,
                       title |-> IF item.title = <<>> THEN UnknownTitle ELSE item.title,
                       error |-> FailedTitle])

\* fetchArticleContent result title -> item.title
RefineTitle(item, hint) ==
    IF hint # UnknownTitle /\ hint # FailedTitle /\ hint # <<>>
    THEN [item EXCEPT !.title = hint] ELSE item

\* mutant: the running summary is written on the 1st, 4th, 7th ... save
SummaryDue_OffByOne(counter) == counter % SummaryEvery = 1

\* maybeUpdateSummaryFile: if (force || counter % 3 === 0)
SummaryDue(counter) == counter % SummaryEvery = 0

\* mutant: the heuristic already fires on the third page
CutoffFires_FromThird(page, sd, td, cp) ==
    HasOlderArticles(page, sd, td) /\ cp >= MinPagesForCutoff

\* scrapeArticles: if (hasOlderArticles && currentPage > 3) break;
CutoffFires(page, sd, td, cp) ==
    HasOlderArticles(page, sd, td) /\ cp > MinPagesForCutoff

\* saveResults: if (this.articles.length === 0) return;
NothingToReport(list) == Len(list) = 0

\* saveResults: if (this.failures && this.failures.length)
FailuresToExport(list) == Len(list) > 0

(***************************************************************************)
(* Initial state: after the constructor, run() has installed the signal    *)
(* handlers and is awaiting init() and navigateToNews().                   *)
(***************************************************************************)
CrawlInit ==
    /\ \E d \in StartOptions : startDate = ConstructorDate(d)
    /\ \E d \in EndOptions : endDate = ConstructorDate(d)
    /\ \E t \in TargetOptions : targetDate = ConstructorTargetDate(t, startDate)
    /\ utcOffset \in CrawlOffsets
    /\ maxPages \in 1..MaxPagesBound
    /\ concurrency \in 1..MaxConcurrency
    /\ aborted = FALSE
    /\ articles = <<>>
    /\ failures = <<>>
    /\ summaryUpdateCounter = 0
    /\ seenKeys = {}
    /\ runPc = "navigating"
    /\ crashed = "no"
    /\ hasMorePages = TRUE
    /\ currentPage = 1
    /\ articlesOnPage = <<>>
    /\ filteredArticles = <<>>
    /\ idx = 0
    /\ workers = [w \in 1..MaxConcurrency |-> IdleWorker]
    /\ files = {}
    /\ realtimeSummary = NoFile
    /\ finalSummary = NoFile
    /\ failuresFile = NoFile
    /\ saved = {}

dataVars == <<articles, failures, summaryUpdateCounter, seenKeys, files,
              realtimeSummary, finalSummary, failuresFile>>
pageVars == <<articlesOnPage, filteredArticles, idx, workers>>

\* SIGINT / SIGTERM handler
Abort ==
    /\ Quiescent
    /\ runPc # "done"
    /\ ~aborted
    /\ aborted' = TRUE
    /\ UNCHANGED <<mainVars, convVars, imageVars, retryVars, configVars, dataVars, pageVars, saved, runPc, crashed,
                   hasMorePages, currentPage>>

\* run(): init() or navigateToNews() throws; catch logs, finally closes
NavigateFails ==
    /\ runPc = "navigating"
    /\ runPc' = "done"
    /\ crashed' = "navigate"
    /\ UNCHANGED <<mainVars, convVars, imageVars, retryVars, configVars, dataVars, pageVars, saved, aborted,
                   hasMorePages, currentPage>>

\* run(): navigateToNews() returns; scrapeArticles() runs to its first await
NavigateDone ==
    /\ runPc = "navigating"
    /\ runPc' = IF LoopContinues(hasMorePages, currentPage, maxPages, aborted)
                THEN "extract" ELSE "finalize"
    /\ UNCHANGED <<mainVars, convVars, imageVars, retryVars, configVars, dataVars, pageVars, saved, aborted, crashed,
                   hasMorePages, currentPage>>

\* extractArticlesFromPage(): a waitForSelector times out; the rejection leaves
\* scrapeArticles and is caught by run()
ExtractThrows ==
    /\ runPc = "extract"
    /\ runPc' = "done"
    /\ crashed' = "listing"
    /\ UNCHANGED <<mainVars, convVars, imageVars, retryVars, configVars, dataVars, pageVars, saved, aborted,
                   hasMorePages, currentPage>>

\* extractArticlesFromPage() returns; filter; start the worker pool
ExtractDone ==
    /\ runPc = "extract"
    /\ \E n \in 0..MaxEntries : \E f \in [1..n -> EntryPool] :
        LET page == PageOf(n, f, currentPage) IN
        IF Len(page) = 0
        THEN /\ runPc' = "finalize"
             /\ UNCHANGED pageVars
        ELSE /\ runPc' = "pool"
             /\ articlesOnPage' = page
             /\ filteredArticles' = FilterSeq(page, startDate, endDate, targetDate)
             /\ idx' = 0
             /\ workers' = [w \in 1..MaxConcurrency |->
                              IF w \in Pool THEN [IdleWorker EXCEPT !.pc = "loop"]
                              ELSE IdleWorker]
    /\ UNCHANGED <<mainVars, convVars, imageVars, retryVars, configVars, dataVars, saved, aborted, crashed,
                   hasMorePages, currentPage>>

(***************************************************************************)
(* One worker of the pool (runOne).  pc names the await the worker is      *)
(* suspended at: newPage (browser.newPage / route), goto (page load and    *)
(* extraction), sleep (backoff), saved (await saveArticleImmediately),     *)
(* summarized (await maybeUpdateSummaryFile); loop is the head of the      *)
(* while loop, done the end of runOne.                                     *)
(***************************************************************************)
Loop(w) == [IdleWorker EXCEPT !.pc = "loop"]

\* mutant: runOne's catch leaves the loop instead of continuing
AfterThrow_Stops(w) == IdleWorker

\* the throw of fetchArticleContentWithRetry reaching runOne's catch
AfterThrow(w) == IF aborted THEN IdleWorker ELSE Loop(w)

\* a failed attempt inside fetchArticleContentWithRetry: break and rethrow
\* after the last attempt, otherwise back off
AttemptFailed(w) ==
    IF RetriesExhausted(workers[w].attempt, DefaultRetries)
    THEN /\ workers' = [workers EXCEPT ![w] = AfterThrow(w)]
         /\ failures' = RecordFailure(failures, workers[w].item, aborted)
    ELSE /\ workers' = [workers EXCEPT ![w].pc = "sleep"]
         /\ UNCHANGED failures

\* runOne: one turn of the while loop, up to the first await of the fetch
Claim(w) ==
    /\ runPc = "pool"
    /\ workers[w].pc = "loop"
    /\ IF WorkerContinues(idx, Len(filteredArticles), aborted)
       THEN LET item == filteredArticles[idx + 1]
                key == IdentityKey(item)
            IN  /\ idx' = NextIndex(idx)
                /\ IF AlreadySeen(seenKeys, key)
                   THEN UNCHANGED workers
                   ELSE workers' = [workers EXCEPT ![w] =
                               [pc |-> "newPage", item |-> item, key |-> key,
                                attempt |-> 0, savedFileName |-> NoName]]
       ELSE /\ workers' = [workers EXCEPT ![w] = IdleWorker]
            /\ UNCHANGED idx
    /\ UNCHANGED <<mainVars, convVars, imageVars, retryVars, configVars, dataVars, articlesOnPage, filteredArticles, saved,
                   aborted, runPc, crashed, hasMorePages, currentPage>>

\* fetchArticleContent: the new tab is open; second abort check, then goto
NewPageDone(w) ==
    /\ Quiescent
    /\ runPc = "pool"
    /\ workers[w].pc = "newPage"
    /\ IF aborted
       THEN AttemptFailed(w)
       ELSE /\ workers' = [workers EXCEPT ![w].pc = "goto"]
            /\ UNCHANGED failures
    /\ UNCHANGED <<mainVars, convVars, imageVars, retryVars, configVars, articles, summaryUpdateCounter, seenKeys, files,
                   realtimeSummary, finalSummary, failuresFile,
                   articlesOnPage, filteredArticles, idx, saved,
                   aborted, runPc, crashed, hasMorePages, currentPage>>

\* fetchArticleContent returns a failed-looking result (or goto throws)
FetchFails(w) ==
    /\ Quiescent
    /\ runPc = "pool"
    /\ workers[w].pc = "goto"
    /\ AttemptFailed(w)
    /\ UNCHANGED <<mainVars, convVars, imageVars, retryVars, configVars, articles, summaryUpdateCounter, seenKeys, files,
                   realtimeSummary, finalSummary, failuresFile,
                   articlesOnPage, filteredArticles, idx, saved,
                   aborted, runPc, crashed, hasMorePages, currentPage>>

\* fetchArticleContent returns content; runOne refines the title and calls
\* saveArticleImmediately, which writes the file unless it exists (or fails)
FetchSucceeds(w) ==
    /\ Quiescent
    /\ runPc = "pool"
    /\ workers[w].pc = "goto"
    /\ \E hint \in DetailTitles : \E writeOk \in BOOLEAN :
        LET item == RefineTitle(workers[w].item, hint)
            name == generateFileName(item)
        IN  IF MaySave(aborted)
            THEN IF writeOk
                 THEN /\ files' = WriteFile(files, name, item.id)
                      /\ saved' = saved \cup {[id |-> item.id, key |-> workers[w].key]}
                      /\ workers' = [workers EXCEPT ![w].pc = "saved", ![w].item = item,
                                                    ![w].savedFileName = name]
                 ELSE /\ workers' = [workers EXCEPT ![w].pc = "saved", ![w].item = item,
                                                    ![w].savedFileName = NoName]
                      /\ UNCHANGED <<files, saved>>
            ELSE /\ workers' = [workers EXCEPT ![w] = Loop(w)]
                 /\ UNCHANGED <<files, saved>>
    /\ UNCHANGED <<mainVars, convVars, imageVars, retryVars, configVars, articles, failures, summaryUpdateCounter, seenKeys,
                   realtimeSummary, finalSummary, failuresFile,
                   articlesOnPage, filteredArticles, idx, 
                   aborted, runPc, crashed, hasMorePages, currentPage>>

\* the backoff timer fires: attempt++, loop condition, next attempt or rethrow
SleepDone(w) ==
    /\ Quiescent
    /\ runPc = "pool"
    /\ workers[w].pc = "sleep"
    /\ LET attempt == workers[w].attempt + 1 IN
       IF RetryContinues(attempt, DefaultRetries, aborted)
       THEN /\ workers' = [workers EXCEPT ![w].pc = "newPage", ![w].attempt = attempt]
            /\ UNCHANGED failures
       ELSE /\ workers' = [workers EXCEPT ![w] = AfterThrow(w)]
            /\ failures' = RecordFailure(failures, workers[w].item, aborted)
    /\ UNCHANGED <<mainVars, convVars, imageVars, retryVars, configVars, articles, summaryUpdateCounter, seenKeys, files,
                   realtimeSummary, finalSummary, failuresFile,
                   articlesOnPage, filteredArticles, idx, saved,
                   aborted, runPc, crashed, hasMorePages, currentPage>>

\* runOne after saveArticleImmediately: second dedup check, push, and
\* maybeUpdateSummaryFile (whose generateIndexMarkdown sorts this.articles)
AfterSave(w) ==
    /\ runPc = "pool"
    /\ workers[w].pc = "saved"
    /\ IF MayCount(workers[w].savedFileName, aborted)
       THEN LET list == Admit(articles, seenKeys, workers[w].item, workers[w].key)
                counter == summaryUpdateCounter + 1
            IN  /\ seenKeys' = seenKeys \cup {workers[w].key}
                /\ summaryUpdateCounter' = counter
                /\ IF SummaryDue(counter)
                   THEN /\ articles' = SortByTimeDesc(list)
                        /\ realtimeSummary' =
                              [written |-> TRUE, rows |-> IndexRows(SortByTimeDesc(list))]
                   ELSE /\ articles' = list
                        /\ UNCHANGED realtimeSummary
                /\ workers' = [workers EXCEPT ![w].pc = "summarized"]
       ELSE /\ workers' = [workers EXCEPT ![w] = Loop(w)]
            /\ UNCHANGED <<articles, seenKeys, summaryUpdateCounter, realtimeSummary>>
    /\ UNCHANGED <<mainVars, convVars, imageVars, retryVars, configVars, failures, files, finalSummary, failuresFile,
                   articlesOnPage, filteredArticles, idx, saved,
                   aborted, runPc, crashed, hasMorePages, currentPage>>

\* runOne after maybeUpdateSummaryFile: back to the head of the loop
AfterSummary(w) ==
    /\ runPc = "pool"
    /\ workers[w].pc = "summarized"
    /\ workers' = [workers EXCEPT ![w] = Loop(w)]
    /\ UNCHANGED <<mainVars, convVars, imageVars, retryVars, configVars, dataVars, articlesOnPage, filteredArticles, idx, saved,
                   aborted, runPc, crashed, hasMorePages, currentPage>>

(***************************************************************************)
(* The page loop after the pool, pagination, and finalisation.             *)
(***************************************************************************)
\* mutant: the page loop resumes as soon as one worker has returned
AllSettled_Race == \E w \in Pool : workers[w].pc = "done"

\* await Promise.all(workers): every runOne has returned
AllSettled == \A w \in Pool : workers[w].pc = "done"

\* Promise.all(workers) settles; boundary heuristic; abort check; goToNextPage
PoolDrained ==
    /\ runPc = "pool"
    /\ AllSettled
    /\ IF CutoffFires(articlesOnPage, startDate, targetDate, currentPage) \/ aborted
       THEN runPc' = "finalize"
       ELSE runPc' = "nextPage"
    /\ articlesOnPage' = <<>>
    /\ filteredArticles' = <<>>
    /\ idx' = 0
    /\ UNCHANGED <<mainVars, convVars, imageVars, retryVars, configVars, dataVars, workers, saved, aborted, crashed,
                   hasMorePages, currentPage>>

\* goToNextPage() returns (false: no link, or any error it caught); loop head
NextPageDone ==
    /\ runPc = "nextPage"
    /\ \E more \in BOOLEAN :
        LET page == IF more THEN currentPage + 1 ELSE currentPage IN
        /\ hasMorePages' = more
        /\ currentPage' = page
        /\ runPc' = IF LoopContinues(more, page, maxPages, aborted)
                    THEN "extract" ELSE "finalize"
    /\ UNCHANGED <<mainVars, convVars, imageVars, retryVars, configVars, dataVars, pageVars, saved, aborted, crashed>>

\* saveResults(), then the finally block of run() (the image option is off:
\* no localisation pass follows)
SaveResults ==
    /\ runPc = "finalize"
    /\ runPc' = "done"
    /\ IF NothingToReport(articles)
       THEN UNCHANGED <<articles, finalSummary, failuresFile>>
       ELSE /\ articles' = SortByTimeDesc(articles)
            /\ finalSummary' = [written |-> TRUE, rows |-> IndexRows(SortByTimeDesc(articles))]
            /\ failuresFile' = IF FailuresToExport(failures)
                               THEN [written |-> TRUE, rows |-> failures]
                               ELSE failuresFile
    /\ UNCHANGED <<mainVars, convVars, imageVars, retryVars, configVars, failures, summaryUpdateCounter, seenKeys, files,
                   realtimeSummary, pageVars, saved, aborted, crashed,
                   hasMorePages, currentPage>>

RetryIdle ==
    /\ rRetries = 0
    /\ rFailFirst = 0
    /\ rAttempt = 0
    /\ rCalls = 0
    /\ rPc = "idle"
    /\ rBaseDelay = BaseDelay
    /\ rDelays = <<>>

\* no localization run: the image option is off
\* main has resolved nothing the other parts look at
MainIdle ==
    /\ args = <<>>
    /\ env = <<>>
    /\ fileCfg = <<>>
    /\ optMaxPages = 0
    /\ mainPc = "idle"

\* no conversion is under way
ConvertIdle ==
    /\ node = <<>>
    /\ markdown = <<>>
    /\ convPc = "idle"

ImageIdle ==
    /\ iDoc = <<>> /\ iCache = {} /\ iWhole = {} /\ iRaw = <<>>
    /\ iTasks = <<>> /\ iDataTasks = <<>> /\ iIdx = 0
    /\ iWorkers = [w \in 1..MaxConcurrency |-> [pc |-> "done", task |-> 0]]
    /\ iStarted = <<>>
    /\ iRun = 0 /\ iPc = "idle"

Init == CrawlInit /\ RetryIdle /\ ImageIdle /\ ConvertIdle /\ MainIdle

Next ==
    \/ Abort
    \/ NavigateFails
    \/ NavigateDone
    \/ ExtractThrows
    \/ ExtractDone
    \/ \E w \in Pool : Claim(w)
    \/ \E w \in Pool : NewPageDone(w)
    \/ \E w \in Pool : FetchFails(w)
    \/ \E w \in Pool : FetchSucceeds(w)
    \/ \E w \in Pool : SleepDone(w)
    \/ \E w \in Pool : AfterSave(w)
    \/ \E w \in Pool : AfterSummary(w)
    \/ PoolDrained
    \/ NextPageDone
    \/ SaveResults

Spec == Init /\ [][Next]_vars

(***************************************************************************)
(* fetchArticleContentWithRetry(url, retries) on its own, for any retry    *)
(* count, against a detail-fetch capability that fails its first           *)
(* rFailFirst calls and succeeds afterwards.  rCalls counts the calls of   *)
(* fetchArticleContent, rPc is the await the function is suspended at      *)
(* (fetch, sleep) or how it ended (returned, threw).                       *)
(***************************************************************************)
\* the crawler object outside a crawl: nothing listed, no worker running
CrawlAtRest ==
    /\ startDate = NoDate /\ endDate = NoDate /\ targetDate = NoDate
    /\ maxPages = 1 /\ utcOffset = 0
    /\ aborted = FALSE
    /\ articles = <<>> /\ failures = <<>>
    /\ summaryUpdateCounter = 0 /\ seenKeys = {}
    /\ runPc = "done" /\ crashed = "no"
    /\ hasMorePages = TRUE /\ currentPage = 1
    /\ articlesOnPage = <<>> /\ filteredArticles = <<>> /\ idx = 0
    /\ workers = [w \in 1..MaxConcurrency |-> IdleWorker]
    /\ files = {}
    /\ realtimeSummary = NoFile /\ finalSummary = NoFile /\ failuresFile = NoFile
    /\ saved = {}

CrawlIdle == CrawlAtRest /\ concurrency = 1

\* the baseDelay argument: the default, and a caller's own
BaseDelays == {BaseDelay, 100}

RetryInit ==
    /\ CrawlIdle
    /\ ImageIdle
    /\ ConvertIdle
    /\ MainIdle
    /\ rRetries \in 0..MaxRetryBound
    /\ rFailFirst \in 0..MaxFailBound
    /\ rAttempt = 0
    /\ rCalls = 0
    /\ rPc = "start"
    /\ rBaseDelay \in BaseDelays
    /\ rDelays = <<>>

retryFrame == <<mainVars, convVars, imageVars, configVars, dataVars, pageVars, saved, runPc, crashed,
                hasMorePages, currentPage>>

\* the signal handler, while the function is running
RetryAbort ==
    /\ rPc \in {"start", "fetch", "sleep"}
    /\ ~aborted
    /\ aborted' = TRUE
    /\ UNCHANGED <<mainVars, convVars, imageVars, retryVars, retryFrame>>

\* let attempt = 0; while (attempt <= retries && !this.aborted) { fetchArticleContent
RetryStart ==
    /\ rPc = "start"
    /\ IF RetryContinues(0, rRetries, aborted)
       THEN rPc' = "fetch" /\ rCalls' = 1
       ELSE rPc' = "threw" /\ UNCHANGED rCalls
    /\ UNCHANGED <<rRetries, rFailFirst, rAttempt, rBaseDelay, rDelays, aborted, retryFrame>>

\* fetchArticleContent settles: a usable result is returned, a failed-looking
\* one (also the '已中断' result of an aborted fetch) is thrown and caught
RetryFetchDone ==
    /\ rPc = "fetch"
    /\ \E cut \in {FALSE, aborted} :
        IF rCalls > rFailFirst /\ ~cut
        THEN rPc' = "returned" /\ UNCHANGED rDelays
        ELSE IF RetriesExhausted(rAttempt, rRetries)
             THEN rPc' = "threw" /\ UNCHANGED rDelays
             ELSE /\ rPc' = "sleep"
                  /\ rDelays' = Append(rDelays, BackoffDelay(rBaseDelay, rAttempt))
    /\ UNCHANGED <<rRetries, rFailFirst, rAttempt, rCalls, rBaseDelay, aborted, retryFrame>>

\* await this.sleep(delay); attempt++; loop condition
RetrySleepDone ==
    /\ rPc = "sleep"
    /\ rAttempt' = rAttempt + 1
    /\ IF RetryContinues(rAttempt + 1, rRetries, aborted)
       THEN rPc' = "fetch" /\ rCalls' = rCalls + 1
       ELSE rPc' = "threw" /\ UNCHANGED rCalls
    /\ UNCHANGED <<rRetries, rFailFirst, rBaseDelay, rDelays, aborted, retryFrame>>

RetryNext ==
    \/ RetryAbort
    \/ RetryStart
    \/ RetryFetchDone
    \/ RetrySleepDone

SpecRetry == RetryInit /\ [][RetryNext]_vars

(***************************************************************************)
(* The crawl from a later page on.  A run reaches the head of the page     *)
(* loop on page k with nothing collected when every entry of the earlier   *)
(* pages was filtered out or could not be written; PagingInit starts       *)
(* there, awaiting extractArticlesFromPage, and the run continues with the *)
(* steps of the crawl.                                                     *)
(***************************************************************************)
PagingInit ==
    /\ \E d \in StartOptions : startDate = ConstructorDate(d)
    /\ \E d \in EndOptions : endDate = ConstructorDate(d)
    /\ \E t \in TargetOptions : targetDate = ConstructorTargetDate(t, startDate)
    /\ utcOffset \in CrawlOffsets
    /\ currentPage \in MinPagesForCutoff..MaxPagesDeep
    /\ maxPages \in currentPage..(currentPage + 1)
    /\ concurrency = 1
    /\ aborted = FALSE
    /\ articles = <<>> /\ failures = <<>>
    /\ summaryUpdateCounter = 0 /\ seenKeys = {}
    /\ runPc = "extract" /\ crashed = "no"
    /\ hasMorePages = TRUE
    /\ articlesOnPage = <<>> /\ filteredArticles = <<>> /\ idx = 0
    /\ workers = [w \in 1..MaxConcurrency |-> IdleWorker]
    /\ files = {}
    /\ realtimeSummary = NoFile /\ finalSummary = NoFile /\ failuresFile = NoFile
    /\ saved = {}
    /\ RetryIdle
    /\ ImageIdle
    /\ ConvertIdle
    /\ MainIdle

\* the steps of the crawl once navigateToNews has returned
PagingNext ==
    \/ Abort
    \/ ExtractThrows
    \/ ExtractDone
    \/ \E w \in Pool : Claim(w)
    \/ \E w \in Pool : NewPageDone(w)
    \/ \E w \in Pool : FetchFails(w)
    \/ \E w \in Pool : FetchSucceeds(w)
    \/ \E w \in Pool : SleepDone(w)
    \/ \E w \in Pool : AfterSave(w)
    \/ \E w \in Pool : AfterSummary(w)
    \/ PoolDrained
    \/ NextPageDone
    \/ SaveResults

SpecPaging == PagingInit /\ [][PagingNext]_vars

(***************************************************************************)
(* The Filter step and the pagination decision of scrapeArticles on their  *)
(* own: one turn of the page loop over a page whose entries all fail to    *)
(* save (no worker changes the crawler's data), for every window           *)
(* configuration, host offset and page of listing times.  runPc is         *)
(* "listed" after extractArticlesFromPage returned, "filtered" after the   *)
(* filter, then "stop" (break) or "advance" (goToNextPage is called).      *)
(***************************************************************************)
WindowStartOptions == {NoDate, 3}
WindowEndOptions == {NoDate, 7}
WindowTargetOptions == {NoDate, 5}
WindowOffsets == {-8, 0, 8}
\* wall-clock readings of the listing: missing, unparseable, and midnight or
\* ten o'clock of a day
WindowTimes ==
    {NoDate, BadTime, 1 * HoursPerDay, 3 * HoursPerDay, 5 * HoursPerDay,
     5 * HoursPerDay + 10, 7 * HoursPerDay, 7 * HoursPerDay + 10, 9 * HoursPerDay}

WindowEntry(t) == [link |-> "u1", title |-> ListTitle, publishTime |-> t]

WindowInit ==
    /\ \E d \in WindowStartOptions : startDate = ConstructorDate(d)
    /\ \E d \in WindowEndOptions : endDate = ConstructorDate(d)
    /\ \E t \in WindowTargetOptions : targetDate = ConstructorTargetDate(t, startDate)
    /\ utcOffset \in WindowOffsets
    /\ maxPages = MaxPagesDeep /\ concurrency = 1
    /\ aborted = FALSE
    /\ articles = <<>> /\ failures = <<>>
    /\ summaryUpdateCounter = 0 /\ seenKeys = {}
    /\ runPc = "listed" /\ crashed = "no"
    /\ hasMorePages = TRUE
    /\ currentPage \in 1..MaxPagesDeep
    /\ \E n \in 1..MaxWindowEntries : \E f \in [1..n -> WindowTimes] :
          articlesOnPage = PageOf(n, [k \in 1..n |-> WindowEntry(f[k])], currentPage)
    /\ filteredArticles = <<>> /\ idx = 0
    /\ workers = [w \in 1..MaxConcurrency |-> IdleWorker]
    /\ files = {}
    /\ realtimeSummary = NoFile /\ finalSummary = NoFile /\ failuresFile = NoFile
    /\ saved = {}
    /\ RetryIdle
    /\ ImageIdle
    /\ ConvertIdle
    /\ MainIdle

windowFrame == <<mainVars, convVars, imageVars, retryVars, configVars, dataVars, saved, aborted, crashed,
                 hasMorePages, currentPage, articlesOnPage, idx, workers>>

\* const filteredArticles = articlesOnPage.filter(...)
WindowFilter ==
    /\ runPc = "listed"
    /\ filteredArticles' = FilterSeq(articlesOnPage, startDate, endDate, targetDate)
    /\ runPc' = "filtered"
    /\ UNCHANGED windowFrame

\* thresholdDate, hasOlderArticles, if (hasOlderArticles && currentPage > 3) break;
WindowDecide ==
    /\ runPc = "filtered"
    /\ runPc' = IF CutoffFires(articlesOnPage, startDate, targetDate, currentPage)
                THEN "stop" ELSE "advance"
    /\ UNCHANGED <<windowFrame, filteredArticles>>

WindowNext ==
    \/ WindowFilter
    \/ WindowDecide

SpecWindow == WindowInit /\ [][WindowNext]_vars

(***************************************************************************)
(* localizeImagesInPapers over one Markdown file of papers/, run twice in  *)
(* a row (two invocations with --images-only).  The file is a sequence of  *)
(* tokens: plain text, or an image reference ![alt](locator).  A locator   *)
(* is a remote URL, an embedded data:image payload, the inline SVG         *)
(* placeholder, or a local images/<name> path; sha1 is taken to be free of *)
(* collisions, so a target name is identified with the locator it hashes.  *)
(* An alt text is plain or spells out the reference's own URL.  iCache is  *)
(* the set of target names that exist in papers/images, iWhole the ones    *)
(* among them whose file holds the whole image, iStarted the log of        *)
(* downloadWithReferer calls.                                              *)
(***************************************************************************)
Plain == [scheme |-> "plain", id |-> "a"]
Http(u) == [scheme |-> "http", id |-> u]
Data(d) == [scheme |-> "data", id |-> d]
SvgPlaceholder == [scheme |-> "svg", id |-> "s"]
\* images/<sha1(locator)><ext>
Local(loc) == [scheme |-> "local", id |-> loc.id]
TargetOf(loc) == loc.id

Text == [kind |-> "text", alt |-> Plain, loc |-> Plain]
Img(alt, loc) == [kind |-> "img", alt |-> alt, loc |-> loc]

\* "d0" is a payload that decodes to an empty buffer
DocTokens ==
    {Text, Img(Plain, Http("h1")), Img(Http("h1"), Http("h1")),
     Img(Plain, Http("h2")), Img(Plain, Data("d1")), Img(Plain, Data("d0")),
     Img(Plain, SvgPlaceholder)}
CachedAtStart == {{}, {"h1"}}

\* .replace(/!\[[^\]]*\]\(data:image\/svg\+xml;[^)]+\)/gi, '')
IsPlaceholder(t) == t.kind = "img" /\ t.loc.scheme = "svg"
KeepToken(t) == ~IsPlaceholder(t)
StripPlaceholders(doc) == SelectSeq(doc, KeepToken)

\* imageRegex / dataRegex matches, in document order
IsHttpRef(t) == t.kind = "img" /\ t.loc.scheme = "http"
IsDataRef(t) == t.kind = "img" /\ t.loc.scheme = "data"
TaskOf(t) == [full |-> t, loc |-> t.loc, ok |-> FALSE]
TasksOf(refs) == [k \in 1..Len(refs) |-> TaskOf(refs[k])]
HttpTasks(raw) == TasksOf(SelectSeq(raw, IsHttpRef))
DataTasks(raw) == TasksOf(SelectSeq(raw, IsDataRef))

\* t.full.replace(t.url, t.localRel): String.replace with a string pattern
\* replaces the first occurrence, which is in the alt text if the alt text
\* spells out the URL
ReplaceFirst(full, loc) ==
    IF full.alt = loc THEN [full EXCEPT !.alt = Local(loc)]
    ELSE [full EXCEPT !.loc = Local(loc)]

\* mutant: the download is started without looking for the target file
Exists_Never(cache, target) == FALSE

\* fs.existsSync(t.localPath)
Exists(cache, target) == target \in cache

\* Buffer.from(payload, ...); if (buf.length === 0) throw
Decodes(loc) == loc.id # "d0"

\* the loop over dataTasks: write the payload unless the target exists
RECURSIVE RunDataTasks(_, _)
RunDataTasks(ts, cache) ==
    IF ts = <<>> THEN [tasks |-> <<>>, cache |-> cache]
    ELSE LET t == Head(ts)
             hit == Exists(cache, TargetOf(t.loc))
             ok == hit \/ Decodes(t.loc)
             c == IF ok THEN cache \cup {TargetOf(t.loc)} ELSE cache
             rest == RunDataTasks(Tail(ts), c)
         IN  [tasks |-> <<[t EXCEPT !.ok = ok]>> \o rest.tasks, cache |-> rest.cache]

\* replacements.push({ full, repl }) for the tasks that are ok
IsOk(t) == t.ok
Replacements(ts) ==
    LET oks == SelectSeq(ts, IsOk)
    IN  [k \in 1..Len(oks) |->
            [full |-> oks[k].full, repl |-> ReplaceFirst(oks[k].full, oks[k].loc)]]

\* updated = updated.split(r.full).join(r.repl), for each replacement in turn
RECURSIVE ApplyAll(_, _)
ApplyAll(doc, rs) ==
    IF rs = <<>> THEN doc
    ELSE ApplyAll([k \in 1..Len(doc) |->
                      IF doc[k] = Head(rs).full THEN Head(rs).repl ELSE doc[k]],
                  Tail(rs))

\* worker: the turns of the while loop up to the first await: tasks whose
\* target exists are marked ok, the first other task is downloaded
RECURSIVE SkipCached(_, _, _)
SkipCached(ts, i, cache) ==
    IF i >= Len(ts) THEN [tasks |-> ts, idx |-> i, task |-> 0]
    ELSE IF Exists(cache, TargetOf(ts[i + 1].loc))
         THEN SkipCached([ts EXCEPT ![i + 1].ok = TRUE], i + 1, cache)
         ELSE [tasks |-> ts, idx |-> i + 1, task |-> i + 1]

IdleLoader == [pc |-> "done", task |-> 0]

ImageInit ==
    /\ CrawlAtRest
    /\ concurrency \in 1..MaxConcurrency
    /\ RetryIdle
    /\ ConvertIdle
    /\ MainIdle
    /\ \E n \in 1..MaxTokens : iDoc \in [1..n -> DocTokens]
    /\ iCache \in CachedAtStart
    /\ iWhole = iCache
    /\ iRaw = <<>> /\ iTasks = <<>> /\ iDataTasks = <<>> /\ iIdx = 0
    /\ iWorkers = [w \in 1..MaxConcurrency |-> IdleLoader]
    /\ iStarted = <<>>
    /\ iRun = 1 /\ iPc = "scan"

imageFrame == <<crawlVars, retryVars, convVars, mainVars>>

\* the end of the loop over the files: the run is over, the next one starts
\* with the files and the images the run has left
NextRun(run) == IF run < ImageRuns THEN run + 1 ELSE run
NextPc(run) == IF run < ImageRuns THEN "scan" ELSE "done"

\* the placeholders are cut from the text read, the references collected and
\* the workers started (or the file skipped: continue)
IScan ==
    /\ iPc = "scan"
    /\ LET raw == StripPlaceholders(iDoc) IN
        /\ iRaw' = raw
        /\ iTasks' = HttpTasks(raw)
        /\ iDataTasks' = DataTasks(raw)
        /\ iIdx' = 0
        /\ IF HttpTasks(raw) = <<>> /\ DataTasks(raw) = <<>>
           THEN /\ iRun' = NextRun(iRun)
                /\ iPc' = NextPc(iRun)
                /\ UNCHANGED iWorkers
           ELSE /\ iPc' = "pool"
                /\ iWorkers' = [w \in 1..MaxConcurrency |->
                                  IF w \in Pool THEN [pc |-> "loop", task |-> 0]
                                  ELSE IdleLoader]
                /\ UNCHANGED iRun
    /\ UNCHANGED <<iDoc, iCache, iWhole, iStarted, imageFrame>>

\* a worker has control: no download event is dispatched before it awaits
IQuiescent == \A w \in Pool : iWorkers[w].pc # "loop"

\* worker: while (tIdx < tasks.length) { ... await downloadWithReferer(...)
IClaimTask(w) ==
    /\ iPc = "pool"
    /\ iWorkers[w].pc = "loop"
    /\ LET r == SkipCached(iTasks, iIdx, iCache) IN
        /\ iTasks' = r.tasks
        /\ iIdx' = r.idx
        /\ IF r.task = 0
           THEN /\ iWorkers' = [iWorkers EXCEPT ![w] = IdleLoader]
                /\ UNCHANGED iStarted
           ELSE /\ iWorkers' = [iWorkers EXCEPT ![w] = [pc |-> "request", task |-> r.task]]
                /\ iStarted' = Append(iStarted,
                        [run |-> iRun, target |-> TargetOf(iTasks[r.task].loc)])
    /\ UNCHANGED <<iDoc, iCache, iWhole, iRaw, iDataTasks, iRun, iPc, imageFrame>>

\* downloadWithReferer rejects before a file is opened (request error,
\* status other than 200, too many redirects); the worker's catch
IRequestFails(w) ==
    /\ iPc = "pool" /\ IQuiescent
    /\ iWorkers[w].pc = "request"
    /\ iTasks' = [iTasks EXCEPT ![iWorkers[w].task].ok = FALSE]
    /\ iWorkers' = [iWorkers EXCEPT ![w].pc = "loop"]
    /\ UNCHANGED <<iDoc, iCache, iWhole, iRaw, iDataTasks, iIdx, iStarted, iRun, iPc, imageFrame>>

\* status 200: fs.createWriteStream(destPath), res.pipe(ws); the file is
\* there, empty, from the moment the stream is opened
IResponse(w) ==
    /\ iPc = "pool" /\ IQuiescent
    /\ iWorkers[w].pc = "request"
    /\ iCache' = iCache \cup {TargetOf(iTasks[iWorkers[w].task].loc)}
    /\ iWhole' = iWhole \ {TargetOf(iTasks[iWorkers[w].task].loc)}
    /\ iWorkers' = [iWorkers EXCEPT ![w].pc = "stream"]
    /\ UNCHANGED <<iDoc, iRaw, iTasks, iDataTasks, iIdx, iStarted, iRun, iPc, imageFrame>>

\* ws 'finish': the promise resolves; downloaded++; t.ok = true
IFinish(w) ==
    /\ iPc = "pool" /\ IQuiescent
    /\ iWorkers[w].pc = "stream"
    /\ iTasks' = [iTasks EXCEPT ![iWorkers[w].task].ok = TRUE]
    /\ iWhole' = iWhole \cup {TargetOf(iTasks[iWorkers[w].task].loc)}
    /\ iWorkers' = [iWorkers EXCEPT ![w].pc = "loop"]
    /\ UNCHANGED <<iDoc, iCache, iRaw, iDataTasks, iIdx, iStarted, iRun, iPc, imageFrame>>

\* ws 'error': fs.unlink(destPath, ...); a destroyed request unlinks nothing
Unlink(cache, target, unlinked) ==
    IF unlinked THEN cache \ {target} ELSE cache

\* the transfer breaks: the request times out and is destroyed (the partial
\* file stays), or the write stream fails (the file is unlinked)
IStreamFails(w) ==
    /\ iPc = "pool" /\ IQuiescent
    /\ iWorkers[w].pc = "stream"
    /\ \E unlinked \in BOOLEAN :
          /\ iCache' = Unlink(iCache, TargetOf(iTasks[iWorkers[w].task].loc), unlinked)
          /\ iWhole' = Unlink(iWhole, TargetOf(iTasks[iWorkers[w].task].loc), unlinked)
    /\ iTasks' = [iTasks EXCEPT ![iWorkers[w].task].ok = FALSE]
    /\ iWorkers' = [iWorkers EXCEPT ![w].pc = "loop"]
    /\ UNCHANGED <<iDoc, iRaw, iDataTasks, iIdx, iStarted, iRun, iPc, imageFrame>>

\* Promise.all settles: the embedded payloads are written, the replacements
\* collected and, if there is one, the file rewritten from the text read
IPoolDrained ==
    /\ iPc = "pool"
    /\ \A w \in Pool : iWorkers[w].pc = "done"
    /\ LET d == RunDataTasks(iDataTasks, iCache)
           rs == Replacements(iTasks) \o Replacements(d.tasks)
       IN  /\ iDataTasks' = d.tasks
           /\ iCache' = d.cache
           /\ iWhole' = iWhole \cup (d.cache \ iCache)
           /\ iDoc' = IF rs # <<>> THEN ApplyAll(iRaw, rs) ELSE iDoc
    /\ iRun' = NextRun(iRun)
    /\ iPc' = NextPc(iRun)
    /\ UNCHANGED <<iRaw, iTasks, iIdx, iWorkers, iStarted, imageFrame>>

ImageNext ==
    \/ IScan
    \/ \E w \in Pool : IClaimTask(w)
    \/ \E w \in Pool : IRequestFails(w)
    \/ \E w \in Pool : IResponse(w)
    \/ \E w \in Pool : IFinish(w)
    \/ \E w \in Pool : IStreamFails(w)
    \/ IPoolDrained

SpecImages == ImageInit /\ [][ImageNext]_vars

(***************************************************************************)
(* Document conversion.  A table is the sequence of its row elements in    *)
(* document order, a list is a tree of elements, the text of an inline     *)
(* code node is a sequence of characters; the Markdown produced is a       *)
(* sequence of lines, of tokens, or of characters.                         *)
(***************************************************************************)

\* rootTable.querySelectorAll('tr, .ne-tr'): a row with its own cell
\* elements, the cell elements of tables nested in them, and whether a th
\* is among them
TableRow(own, inner, th) == [own |-> own, inner |-> inner, th |-> th]
TableRows ==
    {TableRow(0, 0, FALSE)} \cup
    {TableRow(own, inner, th) :
        own \in 1..MaxCells, inner \in 0..MaxInnerCells, th \in BOOLEAN}
Tables == UNION {[1..n -> TableRows] : n \in 0..MaxRows}

\* row.querySelectorAll('th, td, .ne-td').length: every descendant cell
CellCount(row) == row.own + row.inner

RowLine(n) == [kind |-> "row", cells |-> n]
SeparatorLine(n) == [kind |-> "sep", cells |-> n]
\* the fenced plain text returned when nothing was emitted
FallbackBlock == <<[kind |-> "fence", cells |-> 0]>>

\* the loop over rows, i counting from 0 as in the source
RECURSIVE TableLines(_, _, _)
TableLines(rows, i, headerEmitted) ==
    IF i >= Len(rows) THEN <<>>
    ELSE LET row == rows[i + 1]
             n == CellCount(row)
             isHeaderRow == row.th \/ (~headerEmitted /\ i = 0)
             separated == ~headerEmitted /\ isHeaderRow
         IN  IF n = 0 THEN TableLines(rows, i + 1, headerEmitted)
             ELSE <<RowLine(n)>>
                  \o (IF separated THEN <<SeparatorLine(n)>> ELSE <<>>)
                  \o TableLines(rows, i + 1, headerEmitted \/ separated)

\* return markdown || fenced text
convertTableToMarkdown(rows) ==
    IF TableLines(rows, 0, FALSE) = <<>> THEN FallbackBlock
    ELSE TableLines(rows, 0, FALSE)

TableInit ==
    /\ CrawlIdle /\ RetryIdle /\ ImageIdle /\ MainIdle
    /\ node \in Tables
    /\ markdown = <<>>
    /\ convPc = "table"

convFrame == <<crawlVars, retryVars, imageVars, mainVars>>

\* without rows the cleaned text is returned, fenced, or nothing if it is
\* empty
ConvertTable ==
    /\ convPc = "table"
    /\ IF node = <<>>
       THEN markdown' \in {<<>>, FallbackBlock}
       ELSE markdown' = convertTableToMarkdown(node)
    /\ convPc' = "done"
    /\ UNCHANGED <<node, convFrame>>

TableNext == ConvertTable

SpecTable == TableInit /\ [][TableNext]_vars

\* list containers and list items, each item holding a text node and at
\* most one nested list
ListTags == {"ne-ol", "ol"}
ItemTags == {"ne-li", "ne-oli", "li"}
Element(tag, children) == [tag |-> tag, children |-> children]
TextNode == Element("#text", <<>>)
ItemsOver(nested) ==
    {Element(t, <<TextNode>> \o sub) : t \in ItemTags, sub \in nested}
ListsOver(items) ==
    {Element(c, is) : c \in ListTags,
                      is \in UNION {[1..n -> items] : n \in 1..MaxItems}}
InnerLists == ListsOver(ItemsOver({<<>>}))
OuterLists == ListsOver(ItemsOver({<<>>} \cup {<<l>> : l \in InnerLists}))

NoContext == [parentListType |-> "none", listIndex |-> 0]
TextToken == [kind |-> "text", n |-> 0]
NewLine == [kind |-> "newline", n |-> 0]
Bullet == [kind |-> "bullet", n |-> 0]
Numbered(n) == [kind |-> "number", n |-> n]

\* the switch on tagName: ne-ol, ne-oli and ne-li have a case, ol and li
\* fall to the default
convertElementToMarkdown(tagName, content, context) ==
    CASE tagName = "ne-ol" -> <<NewLine>> \o content \o <<NewLine>>
      [] tagName \in {"ne-oli", "ne-li"} ->
            IF context.parentListType = "ordered"
            THEN <<Numbered(IF context.listIndex = 0 THEN 1 ELSE context.listIndex)>>
                 \o content \o <<NewLine>>
            ELSE <<Bullet>> \o content \o <<NewLine>>
      [] OTHER -> content

\* const childContext = { ...context }
ChildContext(tagName, context) ==
    IF tagName \in ListTags
    THEN [parentListType |-> "ordered", listIndex |-> 0]
    ELSE context

\* the index is counted up before a list item child is converted
Counted(child, childContext) ==
    IF child.tag \in ItemTags /\ childContext.parentListType = "ordered"
    THEN [childContext EXCEPT !.listIndex = @ + 1]
    ELSE childContext

RECURSIVE convertDomNodeToMarkdown(_, _)
RECURSIVE ConvertChildren(_, _)
ConvertChildren(children, childContext) ==
    IF children = <<>> THEN <<>>
    ELSE convertDomNodeToMarkdown(Head(children), Counted(Head(children), childContext))
         \o ConvertChildren(Tail(children), Counted(Head(children), childContext))

convertDomNodeToMarkdown(n, context) ==
    IF n.tag = "#text" THEN <<TextToken>>
    ELSE convertElementToMarkdown(n.tag,
             ConvertChildren(n.children, ChildContext(n.tag, context)), context)

ListInit ==
    /\ CrawlIdle /\ RetryIdle /\ ImageIdle /\ MainIdle
    /\ node \in OuterLists
    /\ markdown = <<>>
    /\ convPc = "list"

ConvertList ==
    /\ convPc = "list"
    /\ markdown' = convertDomNodeToMarkdown(node, NoContext)
    /\ convPc' = "done"
    /\ UNCHANGED <<node, convFrame>>

ListNext == ConvertList

SpecList == ListInit /\ [][ListNext]_vars

\* the text of an ne-code node; Backtick stands for the character U+0060
Backtick == "bq"
CodeChars == {Backtick, "a", " ", "\n"}
CodeTexts == UNION {[1..n -> CodeChars] : n \in 0..MaxCodeLen}

\* .replace(/\n+/g, ' ')
RECURSIVE CollapseNewlines(_)
CollapseNewlines(s) ==
    IF s = <<>> THEN <<>>
    ELSE IF Head(s) # "\n" THEN <<Head(s)>> \o CollapseNewlines(Tail(s))
    ELSE IF Tail(s) # <<>> /\ Head(Tail(s)) = "\n" THEN CollapseNewlines(Tail(s))
    ELSE <<" ">> \o CollapseNewlines(Tail(s))

\* raw.match(...).map(s => s.length): the lengths of the maximal runs of
\* backticks
RECURSIVE RunLengths(_, _)
RunLengths(s, run) ==
    IF s = <<>> THEN (IF run > 0 THEN {run} ELSE {})
    ELSE IF Head(s) = Backtick THEN RunLengths(Tail(s), run + 1)
    ELSE (IF run > 0 THEN {run} ELSE {}) \cup RunLengths(Tail(s), 0)

MaxOf(S) == CHOOSE x \in S : \A y \in S : y <= x

\* mutant: the fence is as long as the longest run
fenceLen_NoMargin(raw) ==
    IF RunLengths(raw, 0) = {} THEN 1 ELSE MaxOf(RunLengths(raw, 0))

fenceLen(raw) ==
    IF RunLengths(raw, 0) = {} THEN 1 ELSE MaxOf(RunLengths(raw, 0)) + 1

Fence(n) == [i \in 1..n |-> Backtick]

needsPadding(raw) ==
    /\ raw # <<>>
    /\ \/ raw[1] \in {Backtick, " "}
       \/ raw[Len(raw)] \in {Backtick, " "}

convertInlineCode(text) ==
    LET raw == CollapseNewlines(text)
        fence == Fence(fenceLen(raw))
    IN  IF needsPadding(raw) THEN fence \o <<" ">> \o raw \o <<" ">> \o fence
        ELSE fence \o raw \o fence

CodeInit ==
    /\ CrawlIdle /\ RetryIdle /\ ImageIdle /\ MainIdle
    /\ node \in CodeTexts
    /\ markdown = <<>>
    /\ convPc = "code"

ConvertCode ==
    /\ convPc = "code"
    /\ markdown' = convertInlineCode(node)
    /\ convPc' = "done"
    /\ UNCHANGED <<node, convFrame>>

CodeNext == ConvertCode

SpecCode == CodeInit /\ [][CodeNext]_vars

(***************************************************************************)
(* Cards.  A card element carries a name and a type attribute.  The inner  *)
(* markup of a code card is what the code extractor reads from it: the     *)
(* value of the first data-codeblock-mode attribute, of the first          *)
(* data-language attribute, the text of the .cm-line elements and the text *)
(* of the first fallback container.  The converted content of any other    *)
(* card is a sequence of Markdown tokens.                                  *)
(***************************************************************************)

\* getAttribute and attributes[...] of an attribute the element lacks
NoAttribute == "null"
Languages == {"shell", "js"}
AttributeValues == {NoAttribute, ""} \cup Languages
CardNames == {"codeblock", "image"}
CardTypes == {NoAttribute, "block", "inline"}

\* U+200B
ZeroWidth == "zw"
LineTexts == {<<>>, <<"a">>, <<ZeroWidth>>}
CodeLines == UNION {[1..n -> LineTexts] : n \in 0..MaxCodeLines}
\* no fallback container, or the text of the first one
Fallbacks == {<<>>} \cup {<<t>> : t \in LineTexts}

Markup(mode, language, lines, fallback, throws) ==
    [mode |-> mode, language |-> language, lines |-> lines,
     fallback |-> fallback, throws |-> throws]
\* Markdown holds no elements: text nodes have their angle brackets escaped
MarkdownAsMarkup == Markup(NoAttribute, NoAttribute, <<>>, <<>>, FALSE)

ImageToken == "!["
TextTokens == {"text", ImageToken}
Contents == UNION {[1..n -> TextTokens] : n \in 0..MaxContentLen}

Card(name, type, inner, content) ==
    [tag |-> "ne-card", name |-> name, type |-> type,
     inner |-> inner, content |-> content]
CodeCards ==
    {Card("codeblock", type, Markup(mode, language, lines, fallback, throws), <<>>) :
        type \in CardTypes, mode \in AttributeValues, language \in AttributeValues,
        lines \in CodeLines, fallback \in Fallbacks, throws \in BOOLEAN}
GenericCards ==
    {Card(name, type, MarkdownAsMarkup, content) :
        name \in CardNames \ {"codeblock"}, type \in CardTypes, content \in Contents}

\* the language read in the try block: the mode attribute as it stands,
\* else the language attribute with shell turned into bash
DetectLanguage(m) ==
    LET fromMode == IF m.mode = NoAttribute THEN "" ELSE m.mode
    IN  IF fromMode # "" THEN fromMode
        ELSE IF m.language = NoAttribute THEN ""
        ELSE IF m.language = "shell" THEN "bash"
        ELSE m.language

\* the language read in the catch block: the first non-empty of the two
\* attributes, shell turned into bash
MatchedLanguage(m) ==
    LET languageMatch ==
            IF m.mode \notin {NoAttribute, ""} THEN m.mode
            ELSE IF m.language \notin {NoAttribute, ""} THEN m.language
            ELSE ""
    IN  IF languageMatch = "shell" THEN "bash" ELSE languageMatch

\* lines.join('\n')
RECURSIVE JoinLines(_)
JoinLines(lines) ==
    IF lines = <<>> THEN <<>>
    ELSE IF Len(lines) = 1 THEN lines[1]
    ELSE lines[1] \o <<"\n">> \o JoinLines(Tail(lines))

\* the .cm-line texts, else the text of the first fallback container
CodeText(m) ==
    IF m.lines # <<>> THEN JoinLines(m.lines)
    ELSE IF m.fallback # <<>> THEN m.fallback[1]
    ELSE <<>>

\* cleanHtmlTags(content, true): the text left when the tags are removed
RECURSIVE Concat(_)
Concat(texts) ==
    IF texts = <<>> THEN <<>> ELSE Head(texts) \o Concat(Tail(texts))
CleanText(m) == Concat(m.lines) \o Concat(m.fallback)

\* .replace(/\u200B/g, '')
RECURSIVE StripZeroWidth(_)
StripZeroWidth(s) ==
    IF s = <<>> THEN <<>>
    ELSE (IF Head(s) = ZeroWidth THEN <<>> ELSE <<Head(s)>>) \o StripZeroWidth(Tail(s))

FencedBlock(language, code) == [kind |-> "fence", language |-> language, code |-> code]
Wrapped(content) == [kind |-> "blank", content |-> content]
Quoted(content) == [kind |-> "quote", content |-> content]

extractCodeFromCard(m) ==
    LET language == IF m.throws THEN MatchedLanguage(m) ELSE DetectLanguage(m)
        codeContent == StripZeroWidth(IF m.throws THEN CleanText(m) ELSE CodeText(m))
    IN  IF codeContent = <<>> THEN <<>>
        ELSE <<FencedBlock(language, codeContent)>>

\* content.includes('![')
HasImage(content) == \E i \in 1..Len(content) : content[i] = ImageToken

\* the ne-card case of the switch; extractCodeFromCard is handed the
\* converted content
convertCard(cardName, cardType, content) ==
    IF cardName = "codeblock" \/ cardType = "block"
    THEN (IF content = <<>> THEN <<>> ELSE extractCodeFromCard(MarkdownAsMarkup))
    ELSE IF HasImage(content) THEN <<Wrapped(content)>>
    ELSE <<Quoted(content)>>

\* the short circuit for a code card, else the switch
convertCardNode(n) ==
    IF n.name = "codeblock" THEN extractCodeFromCard(n.inner)
    ELSE convertCard(n.name, n.type, n.content)

CardInit ==
    /\ CrawlIdle /\ RetryIdle /\ ImageIdle /\ MainIdle
    /\ node \in CodeCards \cup GenericCards
    /\ markdown = <<>>
    /\ convPc = "card"

ConvertCard ==
    /\ convPc = "card"
    /\ markdown' = convertCardNode(node)
    /\ convPc' = "done"
    /\ UNCHANGED <<node, convFrame>>

CardNext == ConvertCard

SpecCard == CardInit /\ [][CardNext]_vars

(***************************************************************************)
(* Option resolution in main, for the page limit: the command line, the    *)
(* environment and config.json each may carry the option under several     *)
(* spellings.  Values are the numbers the strings stand for.               *)
(***************************************************************************)

\* the value of a key a source does not hold
Undefined == -1
\* pick(['maxPages', 'max-pages'], 1)
MaxPagesKeys == <<"maxPages", "max-pages">>
CliSpellings == {"maxPages", "max-pages"}
EnvSpellings == {"maxPages", "MAX_PAGES"}
FileSpellings == {"maxPages"}
CliValues == {2, 5}
EnvValues == {3}
FileValues == {4}

Lookup(f, k) == IF k \in DOMAIN f THEN f[k] ELSE Undefined

\* the spellings envGet tries for a key: as is, upper case, dashes to
\* underscores in upper case, camel case to snake case in upper case
Cased(key) ==
    CASE key = "maxPages" -> <<"maxPages", "MAXPAGES", "MAXPAGES", "MAX_PAGES">>
      [] key = "max-pages" -> <<"max-pages", "MAX-PAGES", "MAX_PAGES", "MAX-PAGES">>

RECURSIVE FirstDefined(_, _)
FirstDefined(f, names) ==
    IF names = <<>> THEN Undefined
    ELSE IF Lookup(f, Head(names)) # Undefined THEN Lookup(f, Head(names))
    ELSE FirstDefined(f, Tail(names))

envGet(e, key) == FirstDefined(e, Cased(key))

\* for (const k of keys): the three sources are asked for one key before the
\* next key is tried
RECURSIVE pick(_, _, _, _, _)
pick(a, e, f, keys, fallback) ==
    IF keys = <<>> THEN fallback
    ELSE IF Lookup(a, Head(keys)) # Undefined THEN Lookup(a, Head(keys))
    ELSE IF envGet(e, Head(keys)) # Undefined THEN envGet(e, Head(keys))
    ELSE IF Lookup(f, Head(keys)) # Undefined THEN Lookup(f, Head(keys))
    ELSE pick(a, e, f, Tail(keys), fallback)

\* Number(maxPagesRaw) > 0 ? Number(maxPagesRaw) : 1
EffectiveMaxPages(raw) == IF raw > 0 THEN raw ELSE DefaultMaxPages

MainInit ==
    /\ CrawlIdle /\ RetryIdle /\ ImageIdle /\ ConvertIdle
    /\ args \in [CliSpellings -> CliValues \cup {Undefined}]
    /\ env \in [EnvSpellings -> EnvValues \cup {Undefined}]
    /\ fileCfg \in [FileSpellings -> FileValues \cup {Undefined}]
    /\ optMaxPages = 0
    /\ mainPc = "start"

mainFrame == <<crawlVars, retryVars, imageVars, convVars>>

ResolveOptions ==
    /\ mainPc = "start"
    /\ optMaxPages' = EffectiveMaxPages(pick(args, env, fileCfg, MaxPagesKeys, DefaultMaxPages))
    /\ mainPc' = "configured"
    /\ UNCHANGED <<args, env, fileCfg, mainFrame>>

SpecMain == MainInit /\ [][ResolveOptions]_vars

(***************************************************************************)
(* Properties.                                                             *)
(***************************************************************************)
Ids(list) == {list[k].id : k \in 1..Len(list)}
Keys(list) == {list[k].key : k \in 1..Len(list)}

\* C1: the result list never holds two records admitted under the same
\* identity key, and every admitted key is in the seen-set, so an entry that
\* is listed again (on the same or a later page) is counted once.
C1_NoDuplicateKey ==
    /\ \A i, j \in 1..Len(articles) : i # j => articles[i].key # articles[j].key
    /\ Keys(articles) \subseteq seenKeys

\* C1 witness: an entry was fetched and saved although its key was admitted
\* meanwhile; the second check is about to reject it.
C1_Witness ==
    \E w \in Pool :
        /\ runPc = "pool"
        /\ workers[w].pc = "saved"
        /\ workers[w].savedFileName # NoName
        /\ workers[w].key \in Keys(articles)
        /\ ~aborted

\* C2 (as claimed): of two entries of one page with the same identity key at
\* most one is handed to saveArticleImmediately.
C2_AtMostOneSaved ==
    \A a, b \in saved : (a.key = b.key /\ a.id[1] = b.id[1]) => a = b

\* C3: in every step taken with the abort flag set, no worker starts a fetch
\* attempt (first or retry) or a page load, saveArticleImmediately returns no
\* file name, no file is written, the result list does not grow and
\* goToNextPage is not called.
C3_NothingNewAfterAbort ==
    [][aborted =>
        /\ \A w \in 1..MaxConcurrency :
              /\ workers'[w].pc = "newPage" =>
                    (workers[w].pc = "newPage" /\ workers'[w] = workers[w])
              /\ workers'[w].pc = "goto" => workers[w].pc = "goto"
        /\ saved' = saved
        /\ files' = files
        /\ Len(articles') = Len(articles)
        /\ seenKeys' = seenKeys
        /\ (runPc' = "nextPage" => runPc = "nextPage")]_vars

\* C3 witness: the flag is set while one worker waits in its backoff and an
\* entry of the page is still unclaimed.
C3_Witness ==
    /\ aborted
    /\ runPc = "pool"
    /\ idx < Len(filteredArticles)
    /\ \E w \in Pool : workers[w].pc = "sleep"

\* C4 (as claimed): a cancelled run ends with saveResults having written the
\* final summary (stated for the runs that persisted at least one article
\* before they ended, where saveResults has something to write).
C4_CancelledRunFinalizes ==
    (runPc = "done" /\ aborted /\ articles # <<>>) => finalSummary.written

\* C5 (as claimed): at the end of a run the final summary has a row for
\* exactly the articles saveArticleImmediately returned a file name for.
C5_SummaryCoversSaved ==
    runPc = "done" => Keys(finalSummary.rows) = {a.key : a \in saved}

\* C6: a step that appends to the failure list appends exactly one record
\* {link, title, error}, for an entry whose last attempt just failed with the
\* abort flag unset and that has no record yet; it leaves the result list and
\* the seen-set alone, the worker goes back to the head of its loop and the
\* run stays in the page loop.  Conversely a last attempt that fails with the
\* flag unset always appends a record.
C6_FailureIsolated ==
    [][/\ failures' # failures =>
            \E w \in Pool :
                /\ ~aborted
                /\ workers[w].pc = "goto"
                /\ workers[w].attempt = DefaultRetries
                /\ failures' = Append(failures,
                        [id |-> workers[w].item.id, link |-> workers[w].item.link,
                         title |-> workers[w].item.title, error |-> FailedTitle])
                /\ workers[w].item.id \notin Ids(failures)
                /\ workers[w].item.id \notin Ids(articles)
                /\ workers'[w] = [IdleWorker EXCEPT !.pc = "loop"]
                /\ articles' = articles
                /\ seenKeys' = seenKeys
                /\ runPc = "pool" /\ runPc' = "pool" /\ crashed' = "no"
       /\ \A w \in Pool :
            (/\ ~aborted
             /\ workers[w].pc = "goto"
             /\ workers[w].attempt = DefaultRetries
             /\ workers'[w].pc \notin {"goto", "saved"})
            => Len(failures') = Len(failures) + 1]_vars

\* C6 witness: the only worker recorded the failure of the first entry and
\* is now fetching the second.
C6_Witness ==
    /\ concurrency = 1
    /\ ~aborted
    /\ Len(failures) = 1
    /\ failures[1].id = <<1, 1>>
    /\ workers[1].pc = "goto"
    /\ workers[1].item.id = <<1, 2>>

\* C7: when fetchArticleContentWithRetry(url, r) ends without cancellation
\* against a capability that fails its first f calls, it has returned after
\* exactly f+1 calls if f <= r and has thrown after exactly r+1 calls if f > r.
C7_RetryCount ==
    (rPc \in {"returned", "threw"} /\ ~aborted) =>
        IF rFailFirst <= rRetries
        THEN rPc = "returned" /\ rCalls = rFailFirst + 1
        ELSE rPc = "threw" /\ rCalls = rRetries + 1

\* C7 witness: two failures, then success on the third call, with r >= 2.
C7_Witness ==
    /\ rPc = "returned"
    /\ ~aborted
    /\ rFailFirst = 2
    /\ rRetries >= 2
    /\ rCalls = 3

\* C8 (as claimed): a run whose listing failed after articles were persisted
\* still ends with the final summary written.
C8_ListingFailureFinalizes ==
    (runPc = "done" /\ crashed = "listing" /\ articles # <<>>) => finalSummary.written

\* C9 (as claimed): after saveResults the failures artifact exists exactly if
\* the run produced a FailureRecord, and holds them all.
C9_FailuresExported ==
    (runPc = "done" /\ crashed = "no") =>
        /\ failuresFile.written <=> failures # <<>>
        /\ failuresFile.written => failuresFile.rows = failures

\* C10: a turn of runOne that claims an entry whose key is in the seen-set
\* only advances the cursor: no worker changes state (no fetch starts) and the
\* result list, the failure list, the summary counter, the summary files and
\* the article files stay as they are.
C10_SkipChangesNothing ==
    [][(/\ runPc = "pool"
        /\ idx' = idx + 1
        /\ idx < Len(filteredArticles)
        /\ IdentityKey(filteredArticles[idx + 1]) \in seenKeys)
       => /\ workers' = workers
          /\ articles' = articles
          /\ failures' = failures
          /\ summaryUpdateCounter' = summaryUpdateCounter
          /\ files' = files
          /\ saved' = saved
          /\ realtimeSummary' = realtimeSummary
          /\ seenKeys' = seenKeys]_vars

\* C10 witness: on the second page the cursor has passed a first entry whose
\* key was admitted on the first page, and nobody holds that entry.
C10_Witness ==
    /\ runPc = "pool"
    /\ currentPage = 2
    /\ ~aborted
    /\ idx = 1
    /\ IdentityKey(filteredArticles[1]) \in seenKeys
    /\ \A w \in Pool : workers[w].item = NoItem
    /\ failures = <<>>

\* the lower bound of the window (startDate, else targetDate) and whether an
\* entry of the page just listed is dated at or before it
LowerBound == IF startDate # NoDate THEN startDate ELSE targetDate
CrossedBound ==
    /\ LowerBound # NoDate
    /\ \E k \in 1..Len(articlesOnPage) :
          /\ articlesOnPage[k].publishTime \notin {NoDate, BadTime}
          /\ articlesOnPage[k].publishTime - utcOffset <= LowerBound

\* C11 (as claimed): the pagination decision stops the crawl whenever the
\* window has a lower bound, an entry of the page is dated at or before it and
\* at least 3 pages have been crawled; without a lower bound it never stops.
C11_StopsFromThirdPage ==
    runPc \in {"stop", "advance"} =>
        /\ (CrossedBound /\ currentPage >= 3) => runPc = "stop"
        /\ LowerBound = NoDate => runPc = "advance"

\* C11 (amended): the pagination decision stops the crawl whenever the window
\* has a lower bound, an entry of the page is dated at or before it and more
\* than 3 pages have been crawled (the page number exceeds 3); on the pages up
\* to the third, and without a lower bound, it never stops.
C11_StopsAfterThirdPage ==
    runPc \in {"stop", "advance"} =>
        /\ (CrossedBound /\ currentPage > 3) => runPc = "stop"
        /\ currentPage <= 3 => runPc = "advance"
        /\ LowerBound = NoDate => runPc = "advance"

\* C11 witness: the decision stopped the crawl on page 4 against the
\* targetDate threshold, on an entry dated exactly at it.
C11_Witness ==
    /\ runPc = "stop"
    /\ currentPage = 4
    /\ startDate = NoDate /\ endDate = NoDate
    /\ utcOffset = 0
    /\ Len(articlesOnPage) = 1
    /\ articlesOnPage[1].publishTime = targetDate

\* C12: when the pool of a page has drained and the boundary heuristic holds
\* on that page (an entry dated at or before the lower bound, page number
\* above 3), the run goes straight to saveResults: goToNextPage is not called,
\* and from there on no page is listed and the page counter stays.
C12_StopsAfterCutoffPage ==
    [][/\ (runPc = "pool" /\ runPc' # "pool" /\ CrossedBound /\ currentPage > 3)
            => runPc' = "finalize"
       /\ runPc \in {"finalize", "done"}
            => (runPc' \in {"finalize", "done"} /\ currentPage' = currentPage)]_vars

\* C12 witness: with a single targetDate threshold and a page limit of 5, the
\* run is about to finalize after page 4, whose entries were processed; it was
\* not cancelled and goToNextPage did not report the end of the listing.
C12_Witness ==
    /\ runPc = "finalize"
    /\ currentPage = 4 /\ maxPages = 5
    /\ startDate = NoDate /\ endDate = NoDate /\ targetDate # NoDate
    /\ ~aborted /\ hasMorePages
    /\ \E k \in 1..Len(articles) : articles[k].id[1] = 4

\* C13: extractArticlesFromPage is only ever awaited, and a page's entries
\* only processed, with the page counter between 1 and maxPages; the first
\* listing is on page 1 and each later one on a counter one higher than the
\* listing before, so at most maxPages pages are listed in a run.
C13_AtMostMaxPagesListed ==
    [][/\ (runPc' = "extract" /\ runPc # "extract") =>
            /\ currentPage' >= 1 /\ currentPage' <= maxPages
            /\ runPc \in {"navigating", "nextPage"}
            /\ runPc = "navigating" => currentPage' = 1
            /\ runPc = "nextPage" => currentPage' = currentPage + 1
       /\ runPc' = "pool" =>
            /\ runPc \in {"extract", "pool"}
            /\ currentPage' = currentPage
            /\ currentPage <= maxPages]_vars

\* C13 witness: goToNextPage moved on from page maxPages, the counter went
\* past the limit and the loop ended without listing that page.
C13_Witness ==
    /\ runPc = "finalize"
    /\ currentPage = maxPages + 1
    /\ maxPages = 2
    /\ hasMorePages /\ ~aborted

\* the instant an entry was published at, for entries that carry a timestamp
\* the runtime can read
Timestamped(e) == e.publishTime \notin {NoDate, BadTime}
Instant(e) == e.publishTime - utcOffset
Filtered == runPc \in {"filtered", "stop", "advance"}

InRange(e) ==
    /\ Timestamped(e)
    /\ startDate # NoDate => startDate <= Instant(e)
    /\ endDate # NoDate => Instant(e) <= endDate

DayOf(publishTime) == publishTime \div HoursPerDay
Kept(e) == \E j \in 1..Len(filteredArticles) : filteredArticles[j].id = e.id

\* C15 (as claimed): with an end date given as a calendar day, an entry whose
\* listing time reads that day, at any time of day, and that satisfies the
\* start bound is kept by the filter.
C15_EndDayInclusive ==
    (Filtered /\ endDate # NoDate) =>
        \A k \in 1..Len(articlesOnPage) :
            LET e == articlesOnPage[k] IN
            (/\ Timestamped(e)
             /\ OptionDate(DayOf(e.publishTime)) = endDate
             /\ startDate # NoDate => startDate <= Instant(e))
            => Kept(e)

AfterTarget(e) == Timestamped(e) /\ Instant(e) > targetDate

\* C16 (as claimed): targetDate takes effect only without a range.  With
\* neither bound supplied the filter keeps exactly the entries published
\* strictly after targetDate; with a start or an end bound supplied, the run
\* keeps the same entries and takes the same pagination decision as a run
\* that differs from it only in the targetDate option.
C16_TargetOnlyWithoutRange ==
    /\ (Filtered /\ startDate = NoDate /\ endDate = NoDate /\ targetDate # NoDate)
            => filteredArticles = SelectSeq(articlesOnPage, AfterTarget)
    /\ (startDate # NoDate \/ endDate # NoDate) =>
            \A t \in WindowTargetOptions :
                LET other == ConstructorTargetDate(t, startDate) IN
                /\ Filtered =>
                      filteredArticles =
                          FilterSeq(articlesOnPage, startDate, endDate, other)
                /\ runPc \in {"stop", "advance"} =>
                      (runPc = "stop" <=>
                          CutoffFires(articlesOnPage, startDate, other, currentPage))

\* C17 (as claimed): whatever the window, the filter keeps no entry whose
\* publish timestamp is missing or cannot be parsed.
C17_UntimedDropped ==
    Filtered =>
        \A k \in 1..Len(articlesOnPage) :
            ~Timestamped(articlesOnPage[k]) => ~Kept(articlesOnPage[k])

\* the workers inside fetchArticleContentWithRetry: opening the tab, loading
\* the page, or backing off between two attempts
Fetching == {w \in 1..MaxConcurrency : workers[w].pc \in {"newPage", "goto", "sleep"}}

\* C18: at every moment at most max(1, concurrency) workers are inside a
\* detail fetch, however many filtered entries the page has.
C18_FetchesBounded ==
    Cardinality(Fetching) <= (IF concurrency >= 1 THEN concurrency ELSE 1)

\* C18 witness: with concurrency 1 and two filtered entries, the only worker
\* is loading the first while the second waits behind the cursor.
C18_Witness ==
    /\ concurrency = 1
    /\ runPc = "pool"
    /\ Len(filteredArticles) = 2
    /\ idx = 1
    /\ Fetching = {1}
    /\ workers[1].pc = "goto"

\* C19: outside the pool phase of a page (while goToNextPage is awaited, the
\* next page is listed, or the run finalizes) every worker has returned, and a
\* worker that is running holds no entry of another page than the current one.
C19_PagesSequential ==
    /\ runPc # "pool" => \A w \in 1..MaxConcurrency : workers[w].pc = "done"
    /\ \A w \in 1..MaxConcurrency :
          (workers[w].pc # "done" /\ workers[w].item # NoItem)
              => workers[w].item.id[1] = currentPage
    /\ \A k \in 1..Len(filteredArticles) : filteredArticles[k].id[1] = currentPage

\* C19 witness: two workers processed both entries of page 1, and a worker is
\* now loading an entry of page 2.
C19_Witness ==
    /\ concurrency = 2
    /\ runPc = "pool" /\ currentPage = 2
    /\ {articles[k].id : k \in 1..Len(articles)} = {<<1, 1>>, <<1, 2>>}
    /\ \E w \in 1..MaxConcurrency :
          workers[w].pc = "goto" /\ workers[w].item.id[1] = 2

\* C20 (as claimed): every step leaves the result list as it is or appends
\* one record to it, so the list stays in completion order; writing the
\* running or the final summary does not reorder it.
C20_ResultListAppendOnly ==
    [][\/ articles' = articles
       \/ /\ Len(articles') = Len(articles) + 1
          /\ SubSeq(articles', 1, Len(articles)) = articles]_vars

\* the saves whose file name runOne has not looked at yet
PendingSaves ==
    {w \in 1..MaxConcurrency :
        workers[w].pc = "saved" /\ workers[w].savedFileName # NoName}

\* C21: the summary counter is the number of saves that returned a file name
\* and were counted; the step that counts the 3rd, 6th, ... save writes the
\* running summary from the result list as it then is, and no other step of
\* the run touches the running summary.
C21_SummaryEveryThirdSave ==
    [][/\ summaryUpdateCounter + Cardinality(PendingSaves) = Cardinality(saved)
       /\ summaryUpdateCounter' \in {summaryUpdateCounter, summaryUpdateCounter + 1}
       /\ (summaryUpdateCounter' # summaryUpdateCounter /\ summaryUpdateCounter' % 3 = 0)
            => realtimeSummary' = [written |-> TRUE, rows |-> IndexRows(articles')]
       /\ ~(summaryUpdateCounter' # summaryUpdateCounter /\ summaryUpdateCounter' % 3 = 0)
            => realtimeSummary' = realtimeSummary]_vars

\* C21 witness: two workers have saved three articles between them, the
\* running summary holds three rows and a fourth entry is being fetched.
C21_Witness ==
    /\ concurrency = 2
    /\ summaryUpdateCounter = 3
    /\ Cardinality(saved) = 3
    /\ realtimeSummary.written /\ Len(realtimeSummary.rows) = 3
    /\ runPc = "pool"
    /\ \E w \in 1..MaxConcurrency : workers[w].pc = "goto"

\* C22 (as claimed): two records of the result list with different identity
\* keys have different file names, and the article files written so far are
\* as many as the records of the result list.
C22_OneFilePerRecord ==
    /\ \A i, j \in 1..Len(articles) :
          articles[i].key # articles[j].key
              => generateFileName(articles[i]) # generateFileName(articles[j])
    /\ (runPc = "done" /\ ~aborted) => Cardinality(files) = Len(articles)

\* C23: the delays one call of fetchArticleContentWithRetry has slept are
\* baseDelay, 2 * baseDelay, 4 * baseDelay, ... in this order, one after each
\* failed attempt but the last: a call that threw without cancellation after
\* n attempts slept n - 1 times, and never more often than it may retry.
C23_BackoffDoubles ==
    /\ \A k \in 1..Len(rDelays) : rDelays[k] = rBaseDelay * 2^(k - 1)
    /\ Len(rDelays) <= rRetries
    /\ rPc = "fetch" => Len(rDelays) = rCalls - 1
    /\ (rPc \in {"returned", "threw"} /\ ~aborted /\ rCalls > 0)
            => Len(rDelays) = rCalls - 1

\* C23 witness: with the default base delay and three retries every attempt
\* failed; the call slept 800, 1600 and 3200 ms and threw after the fourth.
C23_Witness ==
    /\ rPc = "threw" /\ ~aborted
    /\ rRetries = 3 /\ rCalls = 4
    /\ rDelays = <<800, 1600, 3200>>

\* the targets a download was started for in the given run
StartedIn(started, run) ==
    {started[k].target : k \in {j \in 1..Len(started) : started[j].run = run}}
\* a reference with this locator was resolved
Resolved(loc, ts) == \E k \in 1..Len(ts) : ts[k].loc = loc /\ ts[k].ok
\* the file holds nothing the two reference patterns match
NoRefs(doc) ==
    /\ HttpTasks(StripPlaceholders(doc)) = <<>>
    /\ DataTasks(StripPlaceholders(doc)) = <<>>

\* C24: the localizer changes a Markdown file only by replacing the locator
\* of references that resolved successfully with the local path; references
\* whose resolution failed keep their locator and no other text of the file
\* is changed or removed.
C24_OnlyResolvedLocatorsRewritten ==
    [][iDoc' # iDoc =>
         /\ Len(iDoc') = Len(iDoc)
         /\ \A k \in 1..Len(iDoc) :
               iDoc'[k] # iDoc[k] =>
                  /\ Resolved(iDoc[k].loc, iTasks' \o iDataTasks')
                  /\ iDoc'[k] = [iDoc[k] EXCEPT !.loc = Local(iDoc[k].loc)]]_vars

\* C25 as stated: a second run over a directory already processed starts no
\* download and leaves every Markdown file and every cached image unchanged.
C25_SecondRunChangesNothing ==
    [][iRun = 2 => (iStarted' = iStarted /\ iDoc' = iDoc /\ iCache' = iCache)]_vars

\* C25: a later run starts no download for a reference whose target file
\* exists, leaves in place every image file it does not download itself, and
\* leaves unchanged a Markdown file that holds no remote or embedded image
\* reference; references an earlier run left unresolved are tried again.
C25_SecondRunSkipsCached ==
    [][iRun >= 2 =>
         /\ iStarted' # iStarted =>
               iStarted'[Len(iStarted')].target \notin iCache
         /\ \A t \in iCache \ StartedIn(iStarted', iRun) : t \in iCache'
         /\ NoRefs(iDoc) => iDoc' = iDoc]_vars

C25_Witness ==
    /\ iRun = 2 /\ iPc = "pool"
    /\ StartedIn(iStarted, 1) # {}
    /\ \E k \in 1..Len(iTasks) :
          /\ iTasks[k].ok
          /\ TargetOf(iTasks[k].loc) \in iCache \ StartedIn(iStarted, 2)
    /\ StartedIn(iStarted, 2) # {}

\* C26: a remote reference is fetched only if no file with its target name
\* exists, and within one run each target file is downloaded at most once,
\* under any interleaving of the workers.
C26_TargetFetchedOnce ==
    [][iStarted' # iStarted =>
         LET new == iStarted'[Len(iStarted')] IN
         /\ new.target \notin iCache
         /\ new.target \notin StartedIn(iStarted, new.run)]_vars

\* the rows of a table that have cells, and the rows the converter is to
\* treat as header rows
HasCells(row) == row.own + row.inner > 0
IsHeader(rows, i) == HasCells(rows[i]) /\ (rows[i].th \/ i = 1)
EmittedUpTo(rows, i) == Cardinality({j \in 1..i : HasCells(rows[j])})
Separators(lines) == {k \in 1..Len(lines) : lines[k].kind = "sep"}
\* the numbers of the numbered items of the output, in order
RECURSIVE Prefixes(_)
Prefixes(tokens) ==
    IF tokens = <<>> THEN <<>>
    ELSE (IF Head(tokens).kind = "number" THEN <<Head(tokens).n>> ELSE <<>>)
         \o Prefixes(Tail(tokens))
\* the numbers an ordered list is to carry: each item its position among
\* the items of its own list, a nested list counted on its own
RECURSIVE ExpectedPrefixes(_)
RECURSIVE ExpectedOfItems(_, _)
ExpectedOfItems(items, k) ==
    IF k > Len(items) THEN <<>>
    ELSE <<k>>
         \o (IF Len(items[k].children) > 1
             THEN ExpectedPrefixes(items[k].children[2]) ELSE <<>>)
         \o ExpectedOfItems(items, k + 1)
ExpectedPrefixes(list) == ExpectedOfItems(list.children, 1)
\* n consecutive backticks occur in s
HasRun(s, n) == \E i \in 1..(Len(s) - n + 1) : \A j \in i..(i + n - 1) : s[j] = Backtick
LongestRun(s) == CHOOSE k \in 0..Len(s) : HasRun(s, k) /\ ~HasRun(s, k + 1)

\* C27: a table with at least one row that has cells gets exactly one
\* separator row, placed right after its first header row.
C27_OneSeparatorAfterHeader ==
    (convPc = "done" /\ \E i \in 1..Len(node) : HasCells(node[i])) =>
        /\ Cardinality(Separators(markdown)) = 1
        /\ \E i \in 1..Len(node) :
              /\ IsHeader(node, i)
              /\ \A j \in 1..(i - 1) : ~IsHeader(node, j)
              /\ Separators(markdown) = {EmittedUpTo(node, i) + 1}

\* C28: in the Markdown of any table every row has as many cells as the
\* header row and the separator row.
C28_RowsAsWideAsHeader ==
    convPc = "done" =>
        \A j, k \in 1..Len(markdown) :
            (markdown[j].kind \in {"row", "sep"} /\ markdown[k].kind \in {"row", "sep"})
                => markdown[j].cells = markdown[k].cells

\* C29: the list items of an ordered list are numbered 1., 2., 3., ... in
\* document order; a nested ordered list starts again at 1 and leaves the
\* numbers of the enclosing list as they are.
C29_ItemsNumberedPerList ==
    convPc = "done" => Prefixes(markdown) = ExpectedPrefixes(node)

\* C30: for inline code whose text, newlines collapsed, has a longest run
\* of k backticks, the output opens and closes with a fence of exactly k+1
\* backticks, and that fence does not occur in the content.
C30_FenceOneLongerThanRun ==
    convPc = "done" =>
        LET raw == CollapseNewlines(node)
            f == LongestRun(raw) + 1
            inside == SubSeq(markdown, f + 1, Len(markdown) - f)
        IN  /\ Len(markdown) >= 2 * f
            /\ \A i \in 1..f : markdown[i] = Backtick /\ markdown[Len(markdown) + 1 - i] = Backtick
            /\ inside \in {raw, <<" ">> \o raw \o <<" ">>}
            /\ raw # <<>> => (inside[1] # Backtick /\ inside[Len(inside)] # Backtick)
            /\ ~HasRun(raw, f)

C30_Witness ==
    /\ convPc = "done"
    /\ LongestRun(CollapseNewlines(node)) = 2
    /\ Len(CollapseNewlines(node)) < Len(node)
    /\ markdown[4] = " "
    /\ Len(markdown) = Len(CollapseNewlines(node)) + 8

\* the values a source gives the option under any of its spellings
Given(f) == {f[k] : k \in DOMAIN f} \ {Undefined}

\* C31: the effective value of an option is the command line value if one
\* is given, else the environment value, else the config.json value, else
\* the default, for every documented spelling of the option.
C31_CliThenEnvThenFile ==
    mainPc = "configured" =>
        IF Given(args) # {} THEN optMaxPages \in Given(args)
        ELSE IF Given(env) # {} THEN optMaxPages \in Given(env)
        ELSE IF Given(fileCfg) # {} THEN optMaxPages \in Given(fileCfg)
        ELSE optMaxPages = DefaultMaxPages

\* a measure of the work a run has left: pages, the phase within the page,
\* entries not yet claimed, the attempts and steps each worker has left, and
\* the cancellation that has not happened yet
RetriesLeft(w) == DefaultRetries - workers[w].attempt
WorkerRank(w) ==
    CASE workers[w].pc = "done" -> 0
      [] workers[w].pc = "loop" -> 1
      [] workers[w].pc = "summarized" -> 2
      [] workers[w].pc = "saved" -> 3
      [] workers[w].pc = "sleep" -> 4 + 3 * RetriesLeft(w)
      [] workers[w].pc = "goto" -> 5 + 3 * RetriesLeft(w)
      [] workers[w].pc = "newPage" -> 6 + 3 * RetriesLeft(w)
EntryCost == 3 * DefaultRetries + 7
RECURSIVE RankOfWorkers(_)
RankOfWorkers(n) == IF n = 0 THEN 0 ELSE WorkerRank(n) + RankOfWorkers(n - 1)
PoolRank ==
    (Len(filteredArticles) - idx) * EntryCost + RankOfWorkers(MaxConcurrency)
PoolCeiling == (MaxEntries + MaxConcurrency + 1) * EntryCost
PhaseRank ==
    CASE runPc = "done" -> 0
      [] runPc = "finalize" -> 1
      [] runPc = "nextPage" -> 2
      [] runPc = "pool" -> 3
      [] runPc = "extract" -> 4
      [] runPc = "navigating" -> 5
Variant ==
    (((maxPages + 1 - currentPage) * 6 + PhaseRank) * PoolCeiling + PoolRank) * 2
    + (IF aborted THEN 0 ELSE 1)
\* some step of the run is enabled: the orchestrator is at one of its own
\* awaits, or the pool has drained, or a worker has a continuation pending,
\* or the event loop is free to complete the call a worker is waiting for
CanStep ==
    \/ runPc \in {"navigating", "extract", "nextPage", "finalize"}
    \/ /\ runPc = "pool"
       /\ \/ \A w \in Pool : workers[w].pc = "done"
          \/ \E w \in Pool : workers[w].pc \in {"loop", "saved", "summarized"}
          \/ Quiescent /\ \E w \in Pool : workers[w].pc \in {"newPage", "goto", "sleep"}
\* the page loop is left for one of the five reasons
LeavesLoop == runPc \in {"navigating", "extract", "pool", "nextPage"} /\ runPc' = "finalize"
ExitReason ==
    \/ aborted
    \/ runPc = "extract" /\ articlesOnPage' = articlesOnPage
    \/ runPc = "pool" /\ CrossedBound /\ currentPage > 3
    \/ runPc = "nextPage" /\ ~hasMorePages'
    \/ runPc = "nextPage" /\ currentPage' > maxPages

\* C32: every crawl run terminates. Every step of a run lowers a measure
\* that is a natural number and a run that is not over can take a step, so,
\* each call returning, the run reaches its end; the page loop is entered
\* for at most maxPages pages and is left only because a page had no
\* entries, pagination was exhausted, the boundary heuristic fired, the page
\* limit was reached, or cancellation was observed.
C32_RunTerminates ==
    [][/\ Variant' < Variant /\ Variant' >= 0
       /\ runPc' # "done" => CanStep'
       /\ runPc' = "extract" => currentPage' <= maxPages
       /\ LeavesLoop => ExitReason]_vars

C32_Witness ==
    /\ runPc = "done" /\ crashed = "no" /\ ~aborted
    /\ concurrency = 2 /\ maxPages = 2 /\ currentPage = 2 /\ hasMorePages
    /\ articles # <<>> /\ failures # <<>>

\* the workers that hold an entry, and the step in which w takes one
Holding == {w \in Pool : workers[w].pc \in {"newPage", "goto", "sleep", "saved", "summarized"}}
Takes(w) == workers[w].pc = "loop" /\ workers'[w].pc = "newPage"

\* C33: within a page the cursor hands each index of the filtered list to
\* at most one worker, and, unless cancellation is observed, every index has
\* been claimed when the pool drains.
C33_CursorHandsEachIndexOnce ==
    [][/\ (runPc = "pool" /\ runPc' = "pool") => idx' \in {idx, idx + 1}
       /\ idx' = idx + 1 =>
             /\ idx < Len(filteredArticles)
             /\ Cardinality({w \in Pool : workers'[w] # workers[w]}) <= 1
       /\ \A w \in Pool : Takes(w) =>
             /\ idx' = idx + 1
             /\ workers'[w].item = filteredArticles[idx + 1]
       /\ \A v, w \in Holding' : v # w => workers'[v].item.id # workers'[w].item.id
       /\ (runPc = "pool" /\ runPc' # "pool" /\ ~aborted) => idx = Len(filteredArticles)]_vars

C33_Witness ==
    /\ runPc = "pool" /\ ~aborted /\ concurrency = 2
    /\ Len(filteredArticles) = 2 /\ idx = 2
    /\ workers[1].pc = "goto" /\ workers[2].pc = "goto"
    /\ workers[1].item.id # workers[2].item.id

\* C34: cancellation is not an error. The failure list grows only while the
\* abort flag is unset, by one record at a time, and never shrinks: an entry
\* whose fetch is cut short or fails after the flag is set leaves no record.
C34_NoFailureAfterAbort ==
    [][failures' # failures =>
         /\ ~aborted /\ ~aborted'
         /\ Len(failures') = Len(failures) + 1
         /\ SubSeq(failures', 1, Len(failures)) = failures]_vars

C34_Witness ==
    /\ runPc = "pool" /\ aborted /\ concurrency = 1
    /\ Len(filteredArticles) = 2 /\ idx = 1
    /\ workers[1] = IdleWorker
    /\ failures = <<>> /\ articles = <<>> /\ saved = {}

\* the language a card's markup carries: the mode attribute, or else the
\* language attribute
CardLanguage(m) ==
    IF m.mode \notin {NoAttribute, ""} THEN m.mode
    ELSE IF m.language = NoAttribute THEN "" ELSE m.language

\* C35: a card whose name is not codeblock, whatever its type, is rendered
\* as its converted content between blank lines when the content holds
\* image markup, and as a block quote of the content otherwise.
C35_GenericCardWrappedOrQuoted ==
    (convPc = "done" /\ node.name # "codeblock") =>
        markdown = IF HasImage(node.content)
                   THEN <<Wrapped(node.content)>>
                   ELSE <<Quoted(node.content)>>

\* C36: a code card with code in it whose language, read from the mode
\* attribute or else from the language attribute, is shell comes out as a
\* fenced block tagged bash.
C36_ShellTaggedBash ==
    (/\ convPc = "done" /\ node.name = "codeblock"
     /\ CardLanguage(node.inner) = "shell"
     /\ markdown # <<>>) =>
        /\ Len(markdown) = 1
        /\ markdown[1].kind = "fence"
        /\ markdown[1].language = "bash"

\* a worker lets go of the entry it holds
Releases(w) == w \in Holding /\ w \notin Holding'
Accounted(key, id, seen, list) == key \in seen \/ id \in Ids(list)
SaveFailed(w) == workers[w].pc = "saved" /\ workers[w].savedFileName = NoName

LocalRefs(doc) ==
    {doc[k].loc.id : k \in {j \in 1..Len(doc) : doc[j].kind = "img" /\ doc[j].loc.scheme = "local"}}
PartialFiles == iCache \ iWhole
InTransfer ==
    {TargetOf(iTasks[iWorkers[w].task].loc) : w \in {v \in Pool : iWorkers[v].pc = "stream"}}

\* C38: a reference is rewritten to a local path only if the target file
\* holds a whole image, and a download that breaks off after the response
\* has started leaves no file behind: every file of the image cache that is
\* not whole is being written at this moment.
C38_NoPartialFileLeft ==
    /\ LocalRefs(iDoc) \subseteq iWhole
    /\ PartialFiles \subseteq InTransfer

\* the worker's call of saveArticleImmediately returns a file name
SaveReturns(w) ==
    /\ workers[w].pc = "goto" /\ workers'[w].pc = "saved"
    /\ workers'[w].savedFileName # NoName
\* the worker goes on after a save that gave a file name, no cancellation seen
GoesOnSaved(w) ==
    /\ workers[w].pc = "saved" /\ workers'[w].pc # "saved"
    /\ workers[w].savedFileName # NoName /\ ~aborted

\* C39: saveArticleImmediately never modifies a file that exists. Every
\* article file keeps its content once written, a save that finds its file
\* name on disk leaves the files as they are and still returns the name,
\* and the article is then counted like one whose file was written: its key
\* is marked seen and, unless the key was seen already, its record is added
\* to the result list.
C39_ExistingFileUntouched ==
    [][/\ \A f \in files : f \in files'
       /\ \A f, g \in files' : f.name = g.name => f = g
       /\ \A w \in Pool :
             (SaveReturns(w) /\ FileExists(files, generateFileName(workers'[w].item))) =>
                /\ files' = files
                /\ workers'[w].savedFileName = generateFileName(workers'[w].item)
       /\ \A w \in Pool : GoesOnSaved(w) =>
             /\ workers[w].key \in seenKeys'
             /\ workers[w].key \notin seenKeys =>
                   /\ Len(articles') = Len(articles) + 1
                   /\ workers[w].item.id \in Ids(articles')]_vars

\* C39 witness: two records are in the result list and one article file is
\* on disk, holding the content of another entry than the second record's.
C39_Witness ==
    /\ Len(articles) = 2 /\ Cardinality(files) = 1
    /\ \E f \in files : \E k \in 1..Len(articles) :
          /\ f.name = generateFileName(articles[k])
          /\ f.content # articles[k].id

====
